---- MODULE Spec2Model ----
(***************************************************************************)
(* The ASCII-art-to-raster pipeline of the site: the Intensity Renderer    *)
(* (class AsciiToImage) and the Glyph Renderer (class AsciiToCanvas).      *)
(*                                                                         *)
(* A character is a UTF-16 code unit, written as its number; a string is   *)
(* a sequence of code units.  Lengths of the Intensity Renderer are whole  *)
(* pixels.  Lengths of the Glyph Renderer are tenths of a pixel (its       *)
(* default pixelSize is 2.5 and its font-metric factors are 0.6 and 1.2),  *)
(* except the canvas width and height, which are whole pixels.             *)
(***************************************************************************)
EXTENDS Integers, Sequences, FiniteSets, TLC

VARIABLES self, pc, op, prop, text, element, value, surface, fills, document,
          remembered, proc, smoke, border

\* the renderers and the call in progress
rendererVars ==
    <<self, pc, op, prop, text, element, value, surface, fills, document, remembered>>

\* the command-line process, the smoke animation and the border of the page
pageVars == <<proc, smoke, border>>

vars == <<rendererVars, pageVars>>

(***************************************************************************)
(* Bounds of the model.                                                    *)
(***************************************************************************)
\* longest input text, in code units
MaxLen == 3
\* the brightness and glyph lookups are probed for every code unit up to here
MaxCode == 300

(***************************************************************************)
(* Generic helpers standing for JavaScript built-ins.                      *)
(***************************************************************************)
Min(a, b) == IF a < b THEN a ELSE b

Max(a, b) == IF a > b THEN a ELSE b

\* Math.max(...xs) over a non-empty sequence of lengths
RECURSIVE MaxOf(_)
MaxOf(xs) ==
    IF Len(xs) = 1 THEN xs[1] ELSE Max(xs[1], MaxOf(Tail(xs)))

\* the object a run of obj[k] = v statements builds from {}: writes is the
\* run in program order as <<k, v>> pairs, and the last write to a key wins
ObjectOf(writes) ==
    [k \in {writes[i][1] : i \in DOMAIN writes} |->
        LET at == {i \in DOMAIN writes : writes[i][1] = k}
            last == CHOOSE i \in at : \A j \in at : j <= i
        IN  writes[last][2]]

\* originalElement = null
NoElement == [none |-> TRUE]

(***************************************************************************)
(* AsciiToImage.buildCharMap: the brightness table.                        *)
(***************************************************************************)
\* map[' '] = 0; map['\t'] = 0; map['\n'] = 0
WhitespaceWrites == << <<32, 0>>, <<9, 0>>, <<10, 0>> >>

\* '@', '#', '$', '%', '&', '*', '+', '=', '~', and the four block-shading glyphs
LightChars == <<64, 35, 36, 37, 38, 42, 43, 61, 126, 9608, 9619, 9618, 9617>>

\* LightValue with a step of 5
LightValueSlip(i) == 255 - (i * 5)

\* the value the forEach callback stores for index i (from 0)
LightValue(i) == 255 - (i * 10)

LightWrites == [k \in 1..Len(LightChars) |-> <<LightChars[k], LightValue(k - 1)>>]

\* 'A'..'Z' then '0'..'9'
MediumChars ==
    <<65, 66, 67, 68, 69, 70, 71, 72, 73, 74, 75, 76, 77,
      78, 79, 80, 81, 82, 83, 84, 85, 86, 87, 88, 89, 90,
      48, 49, 50, 51, 52, 53, 54, 55, 56, 57>>

\* MediumWrites storing 128
MediumWritesSlip == [k \in 1..Len(MediumChars) |-> <<MediumChars[k], 128>>]

MediumWrites == [k \in 1..Len(MediumChars) |-> <<MediumChars[k], 180>>]

\* the box-drawing glyphs, then '_', '|', '-', '=', '\', '/'
LineWrites ==
    << <<9472, 200>>, <<9474, 200>>, <<9484, 200>>, <<9488, 200>>, <<9492, 200>>, <<9496, 200>>,
       <<9500, 200>>, <<9508, 200>>, <<9516, 200>>, <<9524, 200>>, <<9532, 200>>, <<9552, 200>>,
       <<9553, 200>>, <<9556, 200>>, <<9559, 200>>, <<9562, 200>>, <<9565, 200>>, <<9568, 200>>,
       <<9571, 200>>, <<9574, 200>>, <<9577, 200>>, <<9580, 200>>, <<95, 150>>, <<124, 200>>,
       <<45, 150>>, <<61, 200>>, <<92, 180>>, <<47, 180>> >>

\* '.', ',', ':', ';', ''', '"', '`', '^', '~', '*', '+', 'o', 'O', 'x', 'X', '#', '@'
CommonWrites ==
    << <<46, 100>>, <<44, 80>>, <<58, 120>>, <<59, 100>>, <<39, 90>>, <<34, 100>>,
       <<96, 70>>, <<94, 140>>, <<126, 130>>, <<42, 220>>, <<43, 160>>, <<111, 140>>,
       <<79, 180>>, <<120, 150>>, <<88, 190>>, <<35, 240>>, <<64, 255>> >>

\* the target object of the Proxy: every assignment of buildCharMap, in order
CharMapTarget ==
    ObjectOf(WhitespaceWrites \o LightWrites \o MediumWrites \o LineWrites \o CommonWrites)

\* CharMapFallback taking the code unit modulo 255
CharMapFallbackSlip(p) ==
    IF Len(p) = 1 THEN Min(255, p[1] % 255) ELSE 128

\* CharMapFallback without the reduction modulo 256
CharMapFallbackRaw(p) ==
    IF Len(p) = 1 THEN p[1] ELSE 128

\* the Proxy's answer for a property that is not in the target
CharMapFallback(p) ==
    IF Len(p) = 1 THEN Min(255, p[1] % 256) ELSE 128

\* the Proxy's get trap; p is the property name, a string.  The keys of the
\* target are single characters, so a longer or empty name is never one
\* (names inherited from Object.prototype are longer than one character too
\* and are left out).
CharMapGet(p) ==
    IF Len(p) = 1 /\ p[1] \in DOMAIN CharMapTarget
    THEN CharMapTarget[p[1]]
    ELSE CharMapFallback(p)

(***************************************************************************)
(* Text normalisation shared by convert and createCanvas.                  *)
(***************************************************************************)
\* String.prototype.split on one separator character: n separators give n+1 pieces
RECURSIVE SplitFrom(_, _, _)
SplitFrom(s, sep, piece) ==
    IF s = <<>> THEN <<piece>>
    ELSE IF s[1] = sep THEN <<piece>> \o SplitFrom(Tail(s), sep, <<>>)
    ELSE SplitFrom(Tail(s), sep, Append(piece, s[1]))

Split(s, sep) == SplitFrom(s, sep, <<>>)

\* StripCR removing every carriage return of the line
StripCRAll(line) == SelectSeq(line, LAMBDA c : c # 13)

\* line.replace(/\r$/, ''): one carriage return at the very end is removed
StripCR(line) ==
    IF Len(line) > 0 /\ line[Len(line)] = 13
    THEN SubSeq(line, 1, Len(line) - 1)
    ELSE line

\* asciiText.split('\n').map(line => line.replace(/\r$/, ''))
Lines(t) == LET raw == Split(t, 10) IN [i \in 1..Len(raw) |-> StripCR(raw[i])]

\* MaxWidth never below one column
MaxWidthAtLeastOne(lines) == Max(1, MaxOf([i \in 1..Len(lines) |-> Len(lines[i])]))

\* Math.max(...lines.map(line => line.length))
MaxWidth(lines) == MaxOf([i \in 1..Len(lines) |-> Len(lines[i])])

\* CharAt padding a short row with '.'
CharAtSlip(line, x) == IF x < Len(line) THEN line[x + 1] ELSE 46

\* CharAt padding a short row with '#'
CharAtHash(line, x) == IF x < Len(line) THEN line[x + 1] ELSE 35

\* line[x] || ' ' for a column x counted from 0
CharAt(line, x) == IF x < Len(line) THEN line[x + 1] ELSE 32

(***************************************************************************)
(* AsciiToImage: constructor and convert.                                  *)
(***************************************************************************)
\* option values; 0 and "" stand for an absent (falsy) option
ImagePixelSizes == {0, 3}

Scales == {0, 2}

ColorModes == {"", "grayscale", "color", "monochrome", "sepia"}

ImageOptions ==
    [pixelSize : ImagePixelSizes, scale : Scales, colorMode : ColorModes]

NewAsciiToImage(o) ==
    [kind |-> "AsciiToImage",
     pixelSize |-> IF o.pixelSize = 0 THEN 8 ELSE o.pixelSize,
     scale |-> IF o.scale = 0 THEN 1 ELSE o.scale,
     backgroundColor |-> "#000000",
     foregroundColor |-> "#ffffff",
     colorMode |-> IF o.colorMode = "" THEN "grayscale" ELSE o.colorMode]

\* values of ctx.fillStyle: a CSS colour string, rgb(r, g, b), hsl(h, s%, l%).
\* The hue is kept in thousandths of a degree and the two percentages as
\* numerators over 255 (intensity / 2.55 = intensity * 100 / 255).
Css(c) == <<"css", c>>

Rgb(r, g, b) == <<"rgb", r, g, b>>

Hsl(h, s, l) == <<"hsl", h, s, l>>

\* MonochromeStyle with the threshold included
MonochromeStyleSlip(inst, intensity) ==
    IF intensity >= 128 THEN Css(inst.foregroundColor) ELSE Css(inst.backgroundColor)

MonochromeStyle(inst, intensity) ==
    IF intensity > 128 THEN Css(inst.foregroundColor) ELSE Css(inst.backgroundColor)

\* GrayscaleStyle with the blue channel inverted
GrayscaleStyleSlip(intensity) == Rgb(intensity, intensity, 255 - intensity)

\* const gray = Math.floor(intensity); the intensity is an integer already
GrayscaleStyle(intensity) == Rgb(intensity, intensity, intensity)

ColorStyle(char, intensity) ==
    Hsl((char * 137508) % 360000, Min(25500, intensity * 100), intensity * 100)

\* CellStyle treating an unrecognised mode as grayscale
CellStyleGrayDefault(inst, char, intensity, current) ==
    IF inst.colorMode = "monochrome" THEN MonochromeStyle(inst, intensity)
    ELSE IF inst.colorMode = "color" THEN ColorStyle(char, intensity)
    ELSE GrayscaleStyle(intensity)

\* ctx.fillStyle after the mode branch; an unrecognised mode leaves it as it was
CellStyle(inst, char, intensity, current) ==
    IF inst.colorMode = "monochrome" THEN MonochromeStyle(inst, intensity)
    ELSE IF inst.colorMode = "grayscale" THEN GrayscaleStyle(intensity)
    ELSE IF inst.colorMode = "color" THEN ColorStyle(char, intensity)
    ELSE current

ImageCanvasWidth(inst, lines) == MaxWidth(lines) * inst.pixelSize * inst.scale

\* ImageCanvasHeight counting one row too many
ImageCanvasHeightSlip(inst, lines) == (Len(lines) + 1) * inst.pixelSize * inst.scale

ImageCanvasHeight(inst, lines) == Len(lines) * inst.pixelSize * inst.scale

\* ImagePixelX without the scale
ImagePixelXSlip(inst, x) == x * inst.pixelSize

ImagePixelX(inst, x) == x * inst.pixelSize * inst.scale

ImagePixelY(inst, y) == y * inst.pixelSize * inst.scale

\* DrawCells walking the cells column after column
RECURSIVE DrawCellsColumnMajor(_, _, _, _)
DrawCellsColumnMajor(inst, lines, k, current) ==
    LET maxWidth == MaxWidth(lines) IN
    IF k >= Len(lines) * maxWidth THEN <<>>
    ELSE LET y == k % Len(lines)
             x == k \div Len(lines)
             char == CharAt(lines[y + 1], x)
             intensity == CharMapGet(<<char>>)
             style == CellStyle(inst, char, intensity, current)
         IN  <<[x |-> ImagePixelX(inst, x), y |-> ImagePixelY(inst, y),
                w |-> inst.pixelSize * inst.scale, h |-> inst.pixelSize * inst.scale,
                style |-> style]>>
             \o DrawCellsColumnMajor(inst, lines, k + 1, style)

\* the two nested loops of convert, cell k = y * maxWidth + x, carrying
\* ctx.fillStyle from one cell to the next
RECURSIVE DrawCells(_, _, _, _)
DrawCells(inst, lines, k, current) ==
    LET maxWidth == MaxWidth(lines) IN
    IF k >= Len(lines) * maxWidth THEN <<>>
    ELSE LET y == k \div maxWidth
             x == k % maxWidth
             char == CharAt(lines[y + 1], x)
             intensity == CharMapGet(<<char>>)
             style == CellStyle(inst, char, intensity, current)
         IN  <<[x |-> ImagePixelX(inst, x), y |-> ImagePixelY(inst, y),
                w |-> inst.pixelSize * inst.scale, h |-> inst.pixelSize * inst.scale,
                style |-> style]>>
             \o DrawCells(inst, lines, k + 1, style)

\* every ctx.fillRect of convert, in order: the background, then the cells
ConvertFills(inst, t) ==
    LET lines == Lines(t) IN
    <<[x |-> 0, y |-> 0, w |-> ImageCanvasWidth(inst, lines),
       h |-> ImageCanvasHeight(inst, lines), style |-> Css(inst.backgroundColor)]>>
    \o DrawCells(inst, lines, 0, Css(inst.backgroundColor))

(***************************************************************************)
(* AsciiToImage: stripHtml and extractFromHtml.  A regular expression is   *)
(* modelled by the match it finds: the leftmost one, the tag up to the     *)
(* first '>' and the lazy group up to the first closing tag.               *)
(***************************************************************************)
\* what the flag i folds: an upper-case ASCII letter onto its lower-case one
Lower(c) == IF c \in 65..90 THEN c + 32 ELSE c

\* s has pat at position i, exactly
At(s, i, pat) ==
    /\ i + Len(pat) - 1 <= Len(s)
    /\ \A k \in 1..Len(pat) : s[i + k - 1] = pat[k]

\* s has pat at position i, under the flag i
FoldAt(s, i, pat) ==
    /\ i + Len(pat) - 1 <= Len(s)
    /\ \A k \in 1..Len(pat) : Lower(s[i + k - 1]) = Lower(pat[k])

\* the least element of a set of positions, 0 for none
First(S) == IF S = {} THEN 0 ELSE CHOOSE i \in S : \A j \in S : i <= j

\* .replace(/<[^>]*>/g, ' '): a '<' with a '>' somewhere after it is replaced,
\* up to the first such '>', by one space
RECURSIVE StripTagsFrom(_, _)
StripTagsFrom(s, i) ==
    IF i > Len(s) THEN <<>>
    ELSE LET close == First({j \in (i + 1)..Len(s) : s[j] = 62}) IN
         IF s[i] = 60 /\ close # 0
         THEN <<32>> \o StripTagsFrom(s, close + 1)
         ELSE <<s[i]>> \o StripTagsFrom(s, i + 1)

StripTags(s) == StripTagsFrom(s, 1)

\* .replace(/pat/g, rep) for a literal pat: the matches from left to right,
\* none overlapping another
RECURSIVE ReplaceAllFrom(_, _, _, _)
ReplaceAllFrom(s, i, pat, rep) ==
    IF i > Len(s) THEN <<>>
    ELSE IF At(s, i, pat) THEN rep \o ReplaceAllFrom(s, i + Len(pat), pat, rep)
    ELSE <<s[i]>> \o ReplaceAllFrom(s, i + 1, pat, rep)

ReplaceAll(s, pat, rep) == ReplaceAllFrom(s, 1, pat, rep)

\* the six replacements of stripHtml in program order: &nbsp; &amp; &lt; &gt;
\* &quot; &#39; and what each is replaced by
Entities ==
    << <<<<38, 110, 98, 115, 112, 59>>, <<32>>>>,
       <<<<38, 97, 109, 112, 59>>, <<38>>>>,
       <<<<38, 108, 116, 59>>, <<60>>>>,
       <<<<38, 103, 116, 59>>, <<62>>>>,
       <<<<38, 113, 117, 111, 116, 59>>, <<34>>>>,
       <<<<38, 35, 51, 57, 59>>, <<39>>>> >>

\* the replacements from the k-th on, each applied to the result of the last
RECURSIVE DecodeFrom(_, _)
DecodeFrom(s, k) ==
    IF k > Len(Entities) THEN s
    ELSE DecodeFrom(ReplaceAll(s, Entities[k][1], Entities[k][2]), k + 1)

StripHtml(html) == DecodeFrom(StripTags(html), 1)

\* "<pre", "</pre>", "class=" and "ascii"
PreOpen == <<60, 112, 114, 101>>

PreClose == <<60, 47, 112, 114, 101, 62>>

ClassIs == <<99, 108, 97, 115, 115, 61>>

Ascii == <<97, 115, 99, 105, 105>>

\* ["']
Quotes == {34, 39}

\* <pre[^>]*> from position i: the position of the first '>' after "<pre"
TagEnd(s, i) == First({j \in (i + Len(PreOpen))..Len(s) : s[j] = 62})

\* class=["']ascii["'] somewhere between "<pre" at i and the '>' at g
HasAsciiClass(s, i, g) ==
    \E j \in (i + Len(PreOpen))..(g - 13) :
        /\ FoldAt(s, j, ClassIs)
        /\ s[j + 6] \in Quotes
        /\ FoldAt(s, j + 7, Ascii)
        /\ s[j + 12] \in Quotes

\* ([\s\S]*?)<\/pre> after the '>' at g: the position of the first "</pre>"
CloseAt(s, g) == First({j \in (g + 1)..Len(s) : FoldAt(s, j, PreClose)})

\* one of the two patterns matches at position i
MatchesAt(s, i, classed) ==
    /\ FoldAt(s, i, PreOpen)
    /\ LET g == TagEnd(s, i) IN
       /\ g # 0
       /\ classed => HasAsciiClass(s, i, g)
       /\ CloseAt(s, g) # 0

\* html.match(...): null, or the first group of the leftmost match
MatchPre(s, classed) ==
    LET i == First({j \in 1..Len(s) : MatchesAt(s, j, classed)}) IN
    IF i = 0 THEN [found |-> FALSE]
    ELSE LET g == TagEnd(s, i) IN
         [found |-> TRUE, group |-> SubSeq(s, g + 1, CloseAt(s, g) - 1)]

NoArtFound == "No ASCII art found in HTML file"

\* ExtractFromHtml trying the pattern for any <pre> first
ExtractAnyPreFirst(html) ==
    LET preMatch == MatchPre(html, FALSE)
        preMatch2 == MatchPre(html, TRUE)
    IN  IF preMatch.found THEN [kind |-> "return", text |-> StripHtml(preMatch.group)]
        ELSE IF preMatch2.found THEN [kind |-> "return", text |-> StripHtml(preMatch2.group)]
        ELSE [kind |-> "throw", message |-> NoArtFound]

\* extractFromHtml on a file whose content is html: what it returns or throws
ExtractFromHtml(html) ==
    LET preMatch == MatchPre(html, TRUE)
        preMatch2 == MatchPre(html, FALSE)
    IN  IF preMatch.found THEN [kind |-> "return", text |-> StripHtml(preMatch.group)]
        ELSE IF preMatch2.found THEN [kind |-> "return", text |-> StripHtml(preMatch2.group)]
        ELSE [kind |-> "throw", message |-> NoArtFound]

(***************************************************************************)
(* AsciiToCanvas.buildPixelFont: the glyph table.                          *)
(***************************************************************************)
\* the two characters the glyph templates are written with: '#' and '.'
H == 35

D == 46

\* every assignment to font[...] of buildPixelFont, in program order, as
\* <<key, how, rows>>: the whitespace keys get a grid built without a
\* template, the others the rows written between the backticks of their
\* template literal
FontWrites ==
    << <<32, "empty", <<>>>>, <<9, "empty", <<>>>>, <<10, "empty", <<>>>>, <<13, "empty", <<>>>>,
       \* font['A'], lines 53-61
       <<65, "pattern",
         <<<<D,H,H,D,D>>, <<H,D,D,H,D>>, <<H,D,D,H,D>>, <<H,H,H,H,D>>, <<H,D,D,H,D>>, <<H,D,D,H,D>>, <<H,D,D,H,D>>>> >>,
       \* font['B'], lines 62-70
       <<66, "pattern",
         <<<<H,H,H,D,D>>, <<H,D,D,H,D>>, <<H,D,D,H,D>>, <<H,H,H,D,D>>, <<H,D,D,H,D>>, <<H,D,D,H,D>>, <<H,H,H,D,D>>>> >>,
       \* font['C'], lines 71-79
       <<67, "pattern",
         <<<<D,H,H,D,D>>, <<H,D,D,H,D>>, <<H,D,D,D,D>>, <<H,D,D,D,D>>, <<H,D,D,D,D>>, <<H,D,D,H,D>>, <<D,H,H,D,D>>>> >>,
       \* font['D'], lines 80-88
       <<68, "pattern",
         <<<<H,H,H,D,D>>, <<H,D,D,H,D>>, <<H,D,D,H,D>>, <<H,D,D,H,D>>, <<H,D,D,H,D>>, <<H,D,D,H,D>>, <<H,H,H,D,D>>>> >>,
       \* font['E'], lines 89-97
       <<69, "pattern",
         <<<<H,H,H,H,D>>, <<H,D,D,D,D>>, <<H,D,D,D,D>>, <<H,H,H,D,D>>, <<H,D,D,D,D>>, <<H,D,D,D,D>>, <<H,H,H,H,D>>>> >>,
       \* font['F'], lines 98-106
       <<70, "pattern",
         <<<<H,H,H,H,D>>, <<H,D,D,D,D>>, <<H,D,D,D,D>>, <<H,H,H,D,D>>, <<H,D,D,D,D>>, <<H,D,D,D,D>>, <<H,D,D,D,D>>>> >>,
       \* font['G'], lines 107-115
       <<71, "pattern",
         <<<<D,H,H,D,D>>, <<H,D,D,H,D>>, <<H,D,D,D,D>>, <<H,D,H,H,D>>, <<H,D,D,H,D>>, <<H,D,D,H,D>>, <<D,H,H,D,D>>>> >>,
       \* font['H'], lines 116-124
       <<72, "pattern",
         <<<<H,D,D,H,D>>, <<H,D,D,H,D>>, <<H,D,D,H,D>>, <<H,H,H,H,D>>, <<H,D,D,H,D>>, <<H,D,D,H,D>>, <<H,D,D,H,D>>>> >>,
       \* font['I'], lines 125-133
       <<73, "pattern",
         <<<<H,H,H,D,D>>, <<D,D,H,D,D>>, <<D,D,H,D,D>>, <<D,D,H,D,D>>, <<D,D,H,D,D>>, <<D,D,H,D,D>>, <<H,H,H,D,D>>>> >>,
       \* font['J'], lines 134-142
       <<74, "pattern",
         <<<<D,D,H,H,D>>, <<D,D,D,H,D>>, <<D,D,D,H,D>>, <<D,D,D,H,D>>, <<D,D,D,H,D>>, <<H,D,D,H,D>>, <<D,H,H,D,D>>>> >>,
       \* font['K'], lines 143-151
       <<75, "pattern",
         <<<<H,D,D,H,D>>, <<H,D,H,D,D>>, <<H,H,D,D,D>>, <<H,D,D,D,D>>, <<H,H,D,D,D>>, <<H,D,H,D,D>>, <<H,D,D,H,D>>>> >>,
       \* font['L'], lines 152-160
       <<76, "pattern",
         <<<<H,D,D,D,D>>, <<H,D,D,D,D>>, <<H,D,D,D,D>>, <<H,D,D,D,D>>, <<H,D,D,D,D>>, <<H,D,D,D,D>>, <<H,H,H,H,D>>>> >>,
       \* font['M'], lines 161-169
       <<77, "pattern",
         <<<<H,D,D,H,D>>, <<H,H,D,H,H>>, <<H,D,H,D,H>>, <<H,D,D,D,H>>, <<H,D,D,D,H>>, <<H,D,D,D,H>>, <<H,D,D,D,H>>>> >>,
       \* font['N'], lines 170-178
       <<78, "pattern",
         <<<<H,D,D,H,D>>, <<H,H,D,D,H,D>>, <<H,D,H,D,D>>, <<H,D,D,H,D>>, <<H,D,D,H,D>>, <<H,D,D,H,D>>, <<H,D,D,H,D>>>> >>,
       \* font['O'], lines 179-187
       <<79, "pattern",
         <<<<D,H,H,D,D>>, <<H,D,D,H,D>>, <<H,D,D,H,D>>, <<H,D,D,H,D>>, <<H,D,D,H,D>>, <<H,D,D,H,D>>, <<D,H,H,D,D>>>> >>,
       \* font['P'], lines 188-196
       <<80, "pattern",
         <<<<H,H,H,D,D>>, <<H,D,D,H,D>>, <<H,D,D,H,D>>, <<H,H,H,D,D>>, <<H,D,D,D,D>>, <<H,D,D,D,D>>, <<H,D,D,D,D>>>> >>,
       \* font['Q'], lines 197-205
       <<81, "pattern",
         <<<<D,H,H,D,D>>, <<H,D,D,H,D>>, <<H,D,D,H,D>>, <<H,D,D,H,D>>, <<H,D,H,D,D>>, <<H,D,D,H,D>>, <<D,H,H,D,H>>>> >>,
       \* font['R'], lines 206-214
       <<82, "pattern",
         <<<<H,H,H,D,D>>, <<H,D,D,H,D>>, <<H,D,D,H,D>>, <<H,H,H,D,D>>, <<H,D,H,D,D>>, <<H,D,D,H,D>>, <<H,D,D,H,D>>>> >>,
       \* font['S'], lines 215-223
       <<83, "pattern",
         <<<<D,H,H,D,D>>, <<H,D,D,H,D>>, <<H,D,D,D,D>>, <<D,H,H,D,D>>, <<D,D,H,D,D>>, <<H,D,D,H,D>>, <<D,H,H,D,D>>>> >>,
       \* font['T'], lines 224-232
       <<84, "pattern",
         <<<<H,H,H,D,D>>, <<D,D,H,D,D>>, <<D,D,H,D,D>>, <<D,D,H,D,D>>, <<D,D,H,D,D>>, <<D,D,H,D,D>>, <<D,D,H,D,D>>>> >>,
       \* font['U'], lines 233-241
       <<85, "pattern",
         <<<<H,D,D,H,D>>, <<H,D,D,H,D>>, <<H,D,D,H,D>>, <<H,D,D,H,D>>, <<H,D,D,H,D>>, <<H,D,D,H,D>>, <<D,H,H,D,D>>>> >>,
       \* font['V'], lines 242-250
       <<86, "pattern",
         <<<<H,D,D,H,D>>, <<H,D,D,H,D>>, <<H,D,D,H,D>>, <<H,D,D,H,D>>, <<H,D,D,H,D>>, <<D,H,H,D,D>>, <<D,D,H,D,D>>>> >>,
       \* font['W'], lines 251-259
       <<87, "pattern",
         <<<<H,D,D,D,H>>, <<H,D,D,D,H>>, <<H,D,D,D,H>>, <<H,D,H,D,H>>, <<H,H,D,H,H>>, <<H,D,D,H,D>>, <<H,D,D,H,D>>>> >>,
       \* font['X'], lines 260-268
       <<88, "pattern",
         <<<<H,D,D,H,D>>, <<H,D,D,H,D>>, <<D,H,H,D,D>>, <<D,D,H,D,D>>, <<D,H,H,D,D>>, <<H,D,D,H,D>>, <<H,D,D,H,D>>>> >>,
       \* font['Y'], lines 269-277
       <<89, "pattern",
         <<<<H,D,D,H,D>>, <<H,D,D,H,D>>, <<H,D,D,H,D>>, <<D,H,H,D,D>>, <<D,D,H,D,D>>, <<D,D,H,D,D>>, <<D,D,H,D,D>>>> >>,
       \* font['Z'], lines 278-286
       <<90, "pattern",
         <<<<H,H,H,H,D>>, <<D,D,D,H,D>>, <<D,D,H,D,D>>, <<D,H,D,D,D>>, <<H,D,D,D,D>>, <<H,D,D,D,D>>, <<H,H,H,H,D>>>> >>,
       \* font['0'], lines 289-297
       <<48, "pattern",
         <<<<D,H,H,D,D>>, <<H,D,D,H,D>>, <<H,D,H,H,D>>, <<H,D,H,H,D>>, <<H,H,D,H,D>>, <<H,D,D,H,D>>, <<D,H,H,D,D>>>> >>,
       \* font['1'], lines 298-306
       <<49, "pattern",
         <<<<D,D,H,D,D>>, <<D,H,H,D,D>>, <<D,D,H,D,D>>, <<D,D,H,D,D>>, <<D,D,H,D,D>>, <<D,D,H,D,D>>, <<H,H,H,D,D>>>> >>,
       \* font['2'], lines 307-315
       <<50, "pattern",
         <<<<D,H,H,D,D>>, <<H,D,D,H,D>>, <<D,D,D,H,D>>, <<D,D,H,D,D>>, <<D,H,D,D,D>>, <<H,D,D,D,D>>, <<H,H,H,H,D>>>> >>,
       \* font['3'], lines 316-324
       <<51, "pattern",
         <<<<D,H,H,D,D>>, <<H,D,D,H,D>>, <<D,D,D,H,D>>, <<D,H,H,D,D>>, <<D,D,D,H,D>>, <<H,D,D,H,D>>, <<D,H,H,D,D>>>> >>,
       \* font['4'], lines 325-333
       <<52, "pattern",
         <<<<D,D,D,H,D,D>>, <<D,D,H,D,H,D>>, <<D,H,D,D,H,D>>, <<H,D,D,D,H>>, <<H,H,H,H,D>>, <<D,D,D,D,H>>, <<D,D,D,D,H>>>> >>,
       \* font['5'], lines 334-342
       <<53, "pattern",
         <<<<H,H,H,H,D>>, <<H,D,D,D,D>>, <<H,D,D,D,D>>, <<H,H,H,D,D>>, <<D,D,D,H,D>>, <<D,D,D,H,D>>, <<H,H,H,D,D>>>> >>,
       \* font['6'], lines 343-351
       <<54, "pattern",
         <<<<D,H,H,D,D>>, <<H,D,D,D,D>>, <<H,D,D,D,D>>, <<H,H,H,D,D>>, <<H,D,D,H,D>>, <<H,D,D,H,D>>, <<D,H,H,D,D>>>> >>,
       \* font['7'], lines 352-360
       <<55, "pattern",
         <<<<H,H,H,H,D>>, <<D,D,D,H,D>>, <<D,D,D,H,D>>, <<D,D,H,D,D>>, <<D,H,D,D,D>>, <<H,D,D,D,D>>, <<H,D,D,D,D>>>> >>,
       \* font['8'], lines 361-369
       <<56, "pattern",
         <<<<D,H,H,D,D>>, <<H,D,D,H,D>>, <<H,D,D,H,D>>, <<D,H,H,D,D>>, <<H,D,D,H,D>>, <<H,D,D,H,D>>, <<D,H,H,D,D>>>> >>,
       \* font['9'], lines 370-378
       <<57, "pattern",
         <<<<D,H,H,D,D>>, <<H,D,D,H,D>>, <<H,D,D,H,D>>, <<D,H,H,H,D>>, <<D,D,D,H,D>>, <<D,D,H,D,D>>, <<D,H,H,D,D>>>> >>,
       \* font['.'], lines 381-389
       <<46, "pattern",
         <<<<D,D,D,D,D>>, <<D,D,D,D,D>>, <<D,D,D,D,D>>, <<D,D,D,D,D>>, <<D,D,D,D,D>>, <<D,D,H,D,D>>, <<D,D,H,D,D>>>> >>,
       \* font[','], lines 390-398
       <<44, "pattern",
         <<<<D,D,D,D,D>>, <<D,D,D,D,D>>, <<D,D,D,D,D>>, <<D,D,D,D,D>>, <<D,D,D,D,D>>, <<D,D,H,D,D>>, <<D,H,D,D,D>>>> >>,
       \* font[':'], lines 399-407
       <<58, "pattern",
         <<<<D,D,D,D,D>>, <<D,D,D,D,D>>, <<D,D,H,D,D>>, <<D,D,D,D,D>>, <<D,D,D,D,D>>, <<D,D,H,D,D>>, <<D,D,D,D,D>>>> >>,
       \* font[';'], lines 408-416
       <<59, "pattern",
         <<<<D,D,D,D,D>>, <<D,D,D,D,D>>, <<D,D,H,D,D>>, <<D,D,D,D,D>>, <<D,D,D,D,D>>, <<D,D,H,D,D>>, <<D,H,D,D,D>>>> >>,
       \* font['''], lines 417-425
       <<39, "pattern",
         <<<<D,D,H,D,D>>, <<D,H,D,D,D>>, <<D,D,D,D,D>>, <<D,D,D,D,D>>, <<D,D,D,D,D>>, <<D,D,D,D,D>>, <<D,D,D,D,D>>>> >>,
       \* font['"'], lines 426-434
       <<34, "pattern",
         <<<<D,H,D,H,D>>, <<D,H,D,H,D>>, <<D,D,D,D,D>>, <<D,D,D,D,D>>, <<D,D,D,D,D>>, <<D,D,D,D,D>>, <<D,D,D,D,D>>>> >>,
       \* font['`'], lines 435-443
       <<96, "pattern",
         <<<<D,H,D,D,D>>, <<D,D,H,D,D>>, <<D,D,D,D,D>>, <<D,D,D,D,D>>, <<D,D,D,D,D>>, <<D,D,D,D,D>>, <<D,D,D,D,D>>>> >>,
       \* font['!'], lines 444-452
       <<33, "pattern",
         <<<<D,D,H,D,D>>, <<D,D,H,D,D>>, <<D,D,H,D,D>>, <<D,D,H,D,D>>, <<D,D,H,D,D>>, <<D,D,D,D,D>>, <<D,D,H,D,D>>>> >>,
       \* font['?'], lines 453-461
       <<63, "pattern",
         <<<<D,H,H,D,D>>, <<H,D,D,H,D>>, <<D,D,D,H,D>>, <<D,D,H,D,D>>, <<D,D,H,D,D>>, <<D,D,D,D,D>>, <<D,D,H,D,D>>>> >>,
       \* font['-'], lines 462-470
       <<45, "pattern",
         <<<<D,D,D,D,D>>, <<D,D,D,D,D>>, <<D,D,D,D,D>>, <<H,H,H,H,D>>, <<D,D,D,D,D>>, <<D,D,D,D,D>>, <<D,D,D,D,D>>>> >>,
       \* font['_'], lines 471-479
       <<95, "pattern",
         <<<<D,D,D,D,D>>, <<D,D,D,D,D>>, <<D,D,D,D,D>>, <<D,D,D,D,D>>, <<D,D,D,D,D>>, <<D,D,D,D,D>>, <<H,H,H,H,D>>>> >>,
       \* font['='], lines 480-488
       <<61, "pattern",
         <<<<D,D,D,D,D>>, <<D,D,D,D,D>>, <<H,H,H,H,D>>, <<D,D,D,D,D>>, <<H,H,H,H,D>>, <<D,D,D,D,D>>, <<D,D,D,D,D>>>> >>,
       \* font['+'], lines 489-497
       <<43, "pattern",
         <<<<D,D,D,D,D>>, <<D,D,H,D,D>>, <<D,D,H,D,D>>, <<H,H,H,H,D>>, <<D,D,H,D,D>>, <<D,D,H,D,D>>, <<D,D,D,D,D>>>> >>,
       \* font['*'], lines 498-506
       <<42, "pattern",
         <<<<D,D,H,D,D>>, <<H,D,H,D,H>>, <<D,H,H,D,D>>, <<H,H,H,H,D>>, <<D,H,H,D,D>>, <<H,D,H,D,H>>, <<D,D,H,D,D>>>> >>,
       \* font['/'], lines 507-515
       <<47, "pattern",
         <<<<D,D,D,D,H>>, <<D,D,D,D,H>>, <<D,D,D,H,D>>, <<D,D,H,D,D>>, <<D,H,D,D,D>>, <<H,D,D,D,D>>, <<H,D,D,D,D>>>> >>,
       \* font['\'], lines 516-524
       <<92, "pattern",
         <<<<H,D,D,D,D>>, <<H,D,D,D,D>>, <<D,H,D,D,D>>, <<D,D,H,D,D>>, <<D,D,D,H,D>>, <<D,D,D,D,H>>, <<D,D,D,D,H>>>> >>,
       \* font['|'], lines 525-533
       <<124, "pattern",
         <<<<D,D,H,D,D>>, <<D,D,H,D,D>>, <<D,D,H,D,D>>, <<D,D,H,D,D>>, <<D,D,H,D,D>>, <<D,D,H,D,D>>, <<D,D,H,D,D>>>> >>,
       \* font['('], lines 534-542
       <<40, "pattern",
         <<<<D,D,D,H,D>>, <<D,D,H,D,D>>, <<D,H,D,D,D>>, <<D,H,D,D,D>>, <<D,H,D,D,D>>, <<D,D,H,D,D>>, <<D,D,D,H,D>>>> >>,
       \* font[')'], lines 543-551
       <<41, "pattern",
         <<<<H,D,D,D,D>>, <<D,H,D,D,D>>, <<D,D,H,D,D>>, <<D,D,H,D,D>>, <<D,D,H,D,D>>, <<D,H,D,D,D>>, <<H,D,D,D,D>>>> >>,
       \* font['['], lines 552-560
       <<91, "pattern",
         <<<<H,H,H,D,D>>, <<H,D,D,D,D>>, <<H,D,D,D,D>>, <<H,D,D,D,D>>, <<H,D,D,D,D>>, <<H,D,D,D,D>>, <<H,H,H,D,D>>>> >>,
       \* font[']'], lines 561-569
       <<93, "pattern",
         <<<<H,H,H,D,D>>, <<D,D,H,D,D>>, <<D,D,H,D,D>>, <<D,D,H,D,D>>, <<D,D,H,D,D>>, <<D,D,H,D,D>>, <<H,H,H,D,D>>>> >>,
       \* font['{'], lines 570-578
       <<123, "pattern",
         <<<<D,D,H,H,D>>, <<D,D,H,D,D>>, <<D,D,H,D,D>>, <<H,D,D,D,D>>, <<D,D,H,D,D>>, <<D,D,H,D,D>>, <<D,D,H,H,D>>>> >>,
       \* font['}'], lines 579-587
       <<125, "pattern",
         <<<<H,H,D,D,D>>, <<D,H,D,D,D>>, <<D,H,D,D,D>>, <<D,D,D,D,H>>, <<D,H,D,D,D>>, <<D,H,D,D,D>>, <<H,H,D,D,D>>>> >>,
       \* font['<'], lines 588-596
       <<60, "pattern",
         <<<<D,D,D,D,H>>, <<D,D,D,H,D>>, <<D,D,H,D,D>>, <<D,H,D,D,D>>, <<D,D,H,D,D>>, <<D,D,D,H,D>>, <<D,D,D,D,H>>>> >>,
       \* font['>'], lines 597-605
       <<62, "pattern",
         <<<<H,D,D,D,D>>, <<D,H,D,D,D>>, <<D,D,H,D,D>>, <<D,D,D,H,D>>, <<D,D,H,D,D>>, <<D,H,D,D,D>>, <<H,D,D,D,D>>>> >>,
       \* font['@'], lines 606-614
       <<64, "pattern",
         <<<<D,H,H,D,D>>, <<H,D,D,H,D>>, <<H,D,H,H,D>>, <<H,D,H,H,D>>, <<H,D,H,D,D>>, <<H,D,D,D,D>>, <<D,H,H,D,D>>>> >>,
       \* font['#'], lines 615-623
       <<35, "pattern",
         <<<<D,H,D,H,D>>, <<D,H,D,H,D>>, <<H,H,H,H,D>>, <<D,H,D,H,D>>, <<H,H,H,H,D>>, <<D,H,D,H,D>>, <<D,H,D,H,D>>>> >>,
       \* font['$'], lines 624-632
       <<36, "pattern",
         <<<<D,H,H,H,H>>, <<D,H,D,H,D>>, <<D,H,D,D,D>>, <<D,H,H,H,H>>, <<D,D,D,D,H>>, <<D,H,D,H,D>>, <<D,H,H,H,H>>>> >>,
       \* font['%'], lines 633-641
       <<37, "pattern",
         <<<<H,D,D,D,H>>, <<H,D,D,H,D>>, <<D,D,H,D,D>>, <<D,H,D,D,D>>, <<H,D,D,H,D>>, <<H,D,D,D,H>>, <<D,D,D,D,D>>>> >>,
       \* font['&'], lines 642-650
       <<38, "pattern",
         <<<<D,H,H,D,D>>, <<H,D,D,H,D>>, <<H,D,D,D,D>>, <<D,H,H,D,D>>, <<H,D,D,H,D>>, <<H,D,D,H,D>>, <<D,H,H,D,H>>>> >>,
       \* font['^'], lines 651-659
       <<94, "pattern",
         <<<<D,D,H,D,D>>, <<D,H,D,H,D>>, <<H,D,D,D,H>>, <<D,D,D,D,D>>, <<D,D,D,D,D>>, <<D,D,D,D,D>>, <<D,D,D,D,D>>>> >>,
       \* font['~'], lines 660-668
       <<126, "pattern",
         <<<<D,D,D,D,D>>, <<D,D,D,D,D>>, <<D,H,H,D,H>>, <<H,D,H,H,D>>, <<D,D,D,D,D>>, <<D,D,D,D,D>>, <<D,D,D,D,D>>>> >>,
       \* font['o'], lines 669-677
       <<111, "pattern",
         <<<<D,D,D,D,D>>, <<D,D,D,D,D>>, <<D,H,H,D,D>>, <<H,D,D,H,D>>, <<H,D,D,H,D>>, <<D,H,H,D,D>>, <<D,D,D,D,D>>>> >>,
       \* font['O'] = font['o'], line 678
       <<79, "pattern",
         <<<<D,D,D,D,D>>, <<D,D,D,D,D>>, <<D,H,H,D,D>>, <<H,D,D,H,D>>, <<H,D,D,H,D>>, <<D,H,H,D,D>>, <<D,D,D,D,D>>>> >>,
       \* font['x'], lines 679-687
       <<120, "pattern",
         <<<<D,D,D,D,D>>, <<D,D,D,D,D>>, <<H,D,D,D,H>>, <<D,H,D,H,D>>, <<D,D,H,D,D>>, <<D,H,D,H,D>>, <<H,D,D,D,H>>>> >>,
       \* font['X'] = font['x'], line 688
       <<88, "pattern",
         <<<<D,D,D,D,D>>, <<D,D,D,D,D>>, <<H,D,D,D,H>>, <<D,H,D,H,D>>, <<D,D,H,D,D>>, <<D,H,D,H,D>>, <<H,D,D,D,H>>>> >>,
       \* font['U+2500'], lines 691-699
       <<9472, "pattern",
         <<<<D,D,D,D,D>>, <<D,D,D,D,D>>, <<D,D,D,D,D>>, <<H,H,H,H,D>>, <<D,D,D,D,D>>, <<D,D,D,D,D>>, <<D,D,D,D,D>>>> >>,
       \* font['U+2502'], lines 700-708
       <<9474, "pattern",
         <<<<D,D,H,D,D>>, <<D,D,H,D,D>>, <<D,D,H,D,D>>, <<D,D,H,D,D>>, <<D,D,H,D,D>>, <<D,D,H,D,D>>, <<D,D,H,D,D>>>> >>,
       \* font['U+250C'], lines 709-717
       <<9484, "pattern",
         <<<<D,D,D,D,D>>, <<D,D,D,D,D>>, <<D,D,D,D,D>>, <<H,H,H,H,D>>, <<H,D,D,D,D>>, <<H,D,D,D,D>>, <<H,D,D,D,D>>>> >>,
       \* font['U+2510'], lines 718-726
       <<9488, "pattern",
         <<<<D,D,D,D,D>>, <<D,D,D,D,D>>, <<D,D,D,D,D>>, <<H,H,H,H,D>>, <<D,D,D,D,H>>, <<D,D,D,D,H>>, <<D,D,D,D,H>>>> >>,
       \* font['U+2514'], lines 727-735
       <<9492, "pattern",
         <<<<H,D,D,D,D>>, <<H,D,D,D,D>>, <<H,D,D,D,D>>, <<H,H,H,H,D>>, <<D,D,D,D,D>>, <<D,D,D,D,D>>, <<D,D,D,D,D>>>> >>,
       \* font['U+2518'], lines 736-744
       <<9496, "pattern",
         <<<<D,D,D,D,H>>, <<D,D,D,D,H>>, <<D,D,D,D,H>>, <<H,H,H,H,D>>, <<D,D,D,D,D>>, <<D,D,D,D,D>>, <<D,D,D,D,D>>>> >>,
       \* font['U+251C'], lines 745-753
       <<9500, "pattern",
         <<<<D,D,H,D,D>>, <<D,D,H,D,D>>, <<D,D,H,D,D>>, <<H,H,H,H,D>>, <<H,D,D,D,D>>, <<H,D,D,D,D>>, <<H,D,D,D,D>>>> >>,
       \* font['U+2524'], lines 754-762
       <<9508, "pattern",
         <<<<D,D,H,D,D>>, <<D,D,H,D,D>>, <<D,D,H,D,D>>, <<H,H,H,H,D>>, <<D,D,D,D,H>>, <<D,D,D,D,H>>, <<D,D,D,D,H>>>> >>,
       \* font['U+252C'], lines 763-771
       <<9516, "pattern",
         <<<<D,D,D,D,D>>, <<D,D,D,D,D>>, <<D,D,D,D,D>>, <<H,H,H,H,D>>, <<D,D,H,D,D>>, <<D,D,H,D,D>>, <<D,D,H,D,D>>>> >>,
       \* font['U+2534'], lines 772-780
       <<9524, "pattern",
         <<<<D,D,H,D,D>>, <<D,D,H,D,D>>, <<D,D,H,D,D>>, <<H,H,H,H,D>>, <<D,D,D,D,D>>, <<D,D,D,D,D>>, <<D,D,D,D,D>>>> >>,
       \* font['U+253C'], lines 781-789
       <<9532, "pattern",
         <<<<D,D,H,D,D>>, <<D,D,H,D,D>>, <<D,D,H,D,D>>, <<H,H,H,H,D>>, <<D,D,H,D,D>>, <<D,D,H,D,D>>, <<D,D,H,D,D>>>> >>,
       \* font['U+2550'], lines 790-798
       <<9552, "pattern",
         <<<<D,D,D,D,D>>, <<D,D,D,D,D>>, <<H,H,H,H,D>>, <<D,D,D,D,D>>, <<H,H,H,H,D>>, <<D,D,D,D,D>>, <<D,D,D,D,D>>>> >>,
       \* font['U+2551'], lines 799-807
       <<9553, "pattern",
         <<<<D,D,H,D,D>>, <<D,D,H,D,D>>, <<D,D,H,D,D>>, <<D,D,H,D,D>>, <<D,D,H,D,D>>, <<D,D,H,D,D>>, <<D,D,H,D,D>>>> >>,
       \* font['U+2554'], lines 808-816
       <<9556, "pattern",
         <<<<D,D,D,D,D>>, <<D,D,D,D,D>>, <<D,D,D,D,D>>, <<H,H,H,H,D>>, <<H,D,D,H,D>>, <<H,D,D,H,D>>, <<H,D,D,H,D>>>> >>,
       \* font['U+2557'], lines 817-825
       <<9559, "pattern",
         <<<<D,D,D,D,D>>, <<D,D,D,D,D>>, <<D,D,D,D,D>>, <<H,H,H,H,D>>, <<H,D,D,H,D>>, <<H,D,D,H,D>>, <<H,D,D,H,D>>>> >>,
       \* font['U+255A'], lines 826-834
       <<9562, "pattern",
         <<<<H,D,D,H,D>>, <<H,D,D,H,D>>, <<H,D,D,H,D>>, <<H,H,H,H,D>>, <<D,D,D,D,D>>, <<D,D,D,D,D>>, <<D,D,D,D,D>>>> >>,
       \* font['U+255D'], lines 835-843
       <<9565, "pattern",
         <<<<H,D,D,H,D>>, <<H,D,D,H,D>>, <<H,D,D,H,D>>, <<H,H,H,H,D>>, <<D,D,D,D,D>>, <<D,D,D,D,D>>, <<D,D,D,D,D>>>> >>,
       \* font['U+2560'], lines 844-852
       <<9568, "pattern",
         <<<<D,D,H,D,D>>, <<D,D,H,D,D>>, <<D,D,H,D,D>>, <<H,H,H,H,D>>, <<H,D,D,H,D>>, <<H,D,D,H,D>>, <<H,D,D,H,D>>>> >>,
       \* font['U+2563'], lines 853-861
       <<9571, "pattern",
         <<<<D,D,H,D,D>>, <<D,D,H,D,D>>, <<D,D,H,D,D>>, <<H,H,H,H,D>>, <<H,D,D,H,D>>, <<H,D,D,H,D>>, <<H,D,D,H,D>>>> >>,
       \* font['U+2566'], lines 862-870
       <<9574, "pattern",
         <<<<D,D,D,D,D>>, <<D,D,D,D,D>>, <<D,D,D,D,D>>, <<H,H,H,H,D>>, <<H,D,D,H,D>>, <<H,D,D,H,D>>, <<H,D,D,H,D>>>> >>,
       \* font['U+2569'], lines 871-879
       <<9577, "pattern",
         <<<<H,D,D,H,D>>, <<H,D,D,H,D>>, <<H,D,D,H,D>>, <<H,H,H,H,D>>, <<D,D,D,D,D>>, <<D,D,D,D,D>>, <<D,D,D,D,D>>>> >>,
       \* font['U+256C'], lines 880-888
       <<9580, "pattern",
         <<<<H,D,D,H,D>>, <<H,D,D,H,D>>, <<H,D,D,H,D>>, <<H,H,H,H,D>>, <<H,D,D,H,D>>, <<H,D,D,H,D>>, <<H,D,D,H,D>>>> >> >>

\* the template literal handed to pattern(): the rows between the backticks,
\* each after a line break, and a line break before the closing backtick
RECURSIVE TemplateText(_)
TemplateText(rows) ==
    IF rows = <<>> THEN <<10>> ELSE <<10>> \o rows[1] \o TemplateText(Tail(rows))

\* the white space String.prototype.trim removes
TrimSet == {9, 10, 11, 12, 13, 32, 160, 65279}

RECURSIVE TrimStart(_)
TrimStart(s) ==
    IF s # <<>> /\ s[1] \in TrimSet THEN TrimStart(Tail(s)) ELSE s

RECURSIVE TrimEnd(_)
TrimEnd(s) ==
    IF s # <<>> /\ s[Len(s)] \in TrimSet THEN TrimEnd(SubSeq(s, 1, Len(s) - 1)) ELSE s

Trim(s) == TrimEnd(TrimStart(s))

\* Array(charHeight).fill(null).map(() => Array(charWidth).fill(false))
EmptyGrid(inst) == [y \in 1..inst.charHeight |-> [x \in 1..inst.charWidth |-> FALSE]]

\* Pattern without '#' among the markers
PatternSlip(inst, str) ==
    LET lines == Split(Trim(str), 10) IN
    [y \in 1..inst.charHeight |->
        LET line == IF y <= Len(lines) THEN lines[y] ELSE <<>> IN
        [x \in 1..inst.charWidth |-> x <= Len(line) /\ line[x] \in {88, 42}]]

\* Pattern taking each row as long as its template line
PatternRagged(inst, str) ==
    LET lines == Split(Trim(str), 10) IN
    [y \in 1..inst.charHeight |->
        LET line == IF y <= Len(lines) THEN lines[y] ELSE <<>> IN
        [x \in 1..Len(line) |-> line[x] \in {35, 88, 42}]]

\* the helper pattern(str): '#', 'X' and '*' are the markers of an "on" cell
Pattern(inst, str) ==
    LET lines == Split(Trim(str), 10) IN
    [y \in 1..inst.charHeight |->
        LET line == IF y <= Len(lines) THEN lines[y] ELSE <<>> IN
        [x \in 1..inst.charWidth |-> x <= Len(line) /\ line[x] \in {35, 88, 42}]]

\* the last assignment to each key of font
FontSource == ObjectOf([i \in DOMAIN FontWrites |-> <<FontWrites[i][1], FontWrites[i]>>])

\* PixelFontFallback with the top left cell on
PixelFontFallbackSlip(inst, p) ==
    [y \in 1..inst.charHeight |-> [x \in 1..inst.charWidth |-> x = 1 /\ y = 1]]

\* the Proxy's answer for a property that is not in font: the shared
\* emptyPattern for a single character, a fresh empty grid otherwise
PixelFontFallback(inst, p) == EmptyGrid(inst)

\* PixelFontGet never finding the property in font
PixelFontGetSlip(inst, p) == PixelFontFallback(inst, p)

\* the Proxy's get trap of this.pixelFont
PixelFontGet(inst, p) ==
    IF Len(p) = 1 /\ p[1] \in DOMAIN FontSource
    THEN LET w == FontSource[p[1]] IN
         IF w[2] = "empty" THEN EmptyGrid(inst) ELSE Pattern(inst, TemplateText(w[3]))
    ELSE PixelFontFallback(inst, p)

(***************************************************************************)
(* AsciiToCanvas: constructor and createCanvas.  Lengths are tenths of a   *)
(* pixel; canvas.width and canvas.height are whole pixels.                 *)
(***************************************************************************)
\* tenths in a pixel
Unit == 10

\* option values in whole pixels; 0 stands for an absent option
CanvasPixelSizes == {0, 1}

\* every renderer of the page is built without charWidth and charHeight
CanvasOptions ==
    [pixelSize : CanvasPixelSizes, scale : Scales, charWidth : {0}, charHeight : {0}]

\* grid sizes narrower, wider, lower and higher than the 7-row, 5-column
\* templates; 0 stands for an absent option
GridWidths == {0, 4, 6}

GridHeights == {0, 6, 8}

FontOptions ==
    [pixelSize : {0}, scale : {0}, charWidth : GridWidths, charHeight : GridHeights]

NewAsciiToCanvas(o) ==
    [kind |-> "AsciiToCanvas",
     pixelSize |-> IF o.pixelSize = 0 THEN 25 ELSE o.pixelSize * Unit,
     scale |-> IF o.scale = 0 THEN 1 ELSE o.scale,
     charWidth |-> IF o.charWidth = 0 THEN 5 ELSE o.charWidth,
     charHeight |-> IF o.charHeight = 0 THEN 7 ELSE o.charHeight,
     lineColor |-> "#ff0000"]

\* what getComputedStyle(originalElement) parses to, in whole pixels; 0 stands
\* for a value parseFloat turns into NaN or 0 (such as line-height: normal)
FontSizes == {0, 10, 24}

LineHeights == {0, 12}

Elements == {NoElement} \cup [fontSize : FontSizes, lineHeight : LineHeights]

\* parseFloat(computedStyle.fontSize) || 16
FontSize(el) == IF el.fontSize = 0 THEN 16 * Unit ELSE el.fontSize * Unit

GlyphWidth(inst) == inst.charWidth * inst.pixelSize * inst.scale

\* charPixelWidth: the glyph's own width, or fontSize * 0.6 with an element
CharPixelWidth(inst, el) ==
    IF el = NoElement THEN GlyphWidth(inst) ELSE (FontSize(el) * 6) \div 10

\* charPixelHeight
CharPixelHeight(inst) == inst.charHeight * inst.pixelSize * inst.scale

\* lineHeight: charPixelHeight, or parseFloat(computedStyle.lineHeight) ||
\* fontSize * 1.2 with an element
LineHeight(inst, el) ==
    IF el = NoElement THEN CharPixelHeight(inst)
    ELSE IF el.lineHeight = 0 THEN (FontSize(el) * 12) \div 10
    ELSE el.lineHeight * Unit

\* Ceil rounding down
CeilSlip(n) == n \div Unit

\* Math.ceil of a length given in tenths, in whole pixels
Ceil(n) == (n + Unit - 1) \div Unit

CanvasWidth(inst, el, lines) == Ceil(MaxWidth(lines) * CharPixelWidth(inst, el))

CanvasHeight(inst, el, lines) ==
    Ceil((Len(lines) - 1) * LineHeight(inst, el) + CharPixelHeight(inst))

\* char === ' ' || char === '\t' || char === '\n' || char === '\r'
IsSkipped(char) == char \in {32, 9, 10, 13}

\* the first pair of loops over the pattern: does it hold a true cell
HasPixels(inst, grid) ==
    \E py \in 1..inst.charHeight : \E px \in 1..inst.charWidth : grid[py][px]

\* GlyphFills with px and py exchanged in the position
GlyphFillsSlip(inst, el, grid, x, y) ==
    LET W == inst.charWidth
        cells == SelectSeq([i \in 1..(inst.charHeight * W) |-> i - 1],
                           LAMBDA i : grid[(i \div W) + 1][(i % W) + 1])
    IN  [n \in 1..Len(cells) |->
            LET py == cells[n] \div W
                px == cells[n] % W
            IN  [x |-> x * CharPixelWidth(inst, el) + py * inst.pixelSize * inst.scale,
                 y |-> y * LineHeight(inst, el) + px * inst.pixelSize * inst.scale,
                 w |-> inst.pixelSize * inst.scale,
                 h |-> inst.pixelSize * inst.scale,
                 style |-> Css(inst.lineColor),
                 cx |-> x, cy |-> y, px |-> px, py |-> py]]

\* the second pair of loops: one fillRect per true cell, rows first.  cx, cy,
\* px and py record the cell and the grid position a fill was issued for.
GlyphFills(inst, el, grid, x, y) ==
    LET W == inst.charWidth
        cells == SelectSeq([i \in 1..(inst.charHeight * W) |-> i - 1],
                           LAMBDA i : grid[(i \div W) + 1][(i % W) + 1])
    IN  [n \in 1..Len(cells) |->
            LET py == cells[n] \div W
                px == cells[n] % W
            IN  [x |-> x * CharPixelWidth(inst, el) + px * inst.pixelSize * inst.scale,
                 y |-> y * LineHeight(inst, el) + py * inst.pixelSize * inst.scale,
                 w |-> inst.pixelSize * inst.scale,
                 h |-> inst.pixelSize * inst.scale,
                 style |-> Css(inst.lineColor),
                 cx |-> x, cy |-> y, px |-> px, py |-> py]]

\* the fills of one cell of the text
CellFills(inst, el, lines, x, y) ==
    LET char == CharAt(lines[y + 1], x)
        grid == PixelFontGet(inst, <<char>>)
    IN  IF IsSkipped(char) THEN <<>>
        ELSE IF ~HasPixels(inst, grid) THEN <<>>
        ELSE GlyphFills(inst, el, grid, x, y)

\* the loops over the rows and the columns, cell k = y * maxWidth + x
RECURSIVE RenderCells(_, _, _, _)
RenderCells(inst, el, lines, k) ==
    LET maxWidth == MaxWidth(lines) IN
    IF k >= Len(lines) * maxWidth THEN <<>>
    ELSE CellFills(inst, el, lines, k % maxWidth, k \div maxWidth)
         \o RenderCells(inst, el, lines, k + 1)

(***************************************************************************)
(* The state machine.                                                      *)
(***************************************************************************)
RECURSIVE StringsUpTo(_, _)
StringsUpTo(alphabet, n) ==
    IF n = 0 THEN {<<>>}
    ELSE LET shorter == StringsUpTo(alphabet, n - 1) IN
         shorter \cup {Append(s, c) : s \in {t \in shorter : Len(t) = n - 1}, c \in alphabet}

\* the texts handed to convert are made of newline, carriage return, space,
\* '@', 'A', 'B' and U+0080, which is in neither table
ImageTexts == StringsUpTo({10, 13, 32, 64, 65, 66, 128}, MaxLen)

\* the texts handed to createCanvas are made of newline, carriage return,
\* space, tab, '.', 'A' and U+0080
CanvasTexts == StringsUpTo({10, 13, 32, 9, 46, 65, 128}, MaxLen)

\* property names the lookups are probed with: every single code unit up to
\* MaxCode, every key of the two tables, the last code unit, the empty
\* name and a two-unit name (a surrogate pair)
ProbeProps ==
    {<<c>> : c \in (0..MaxCode) \cup DOMAIN CharMapTarget \cup DOMAIN FontSource \cup {65535}}
    \cup {<<>>, <<55357, 56832>>}

\* createCanvas's null, and the surface while no call is in progress
NoSurface == [none |-> TRUE]

\* no render is remembered
NoRender == [none |-> TRUE]

\* no converter is constructed yet
NoInstance == [none |-> TRUE]

\* no command-line process, no smoke animation and no border in the page
NoProcess == [none |-> TRUE]

NoSmoke == [none |-> TRUE]

NoBorder == [none |-> TRUE]

Init ==
    /\ self \in {NewAsciiToImage(o) : o \in ImageOptions}
               \cup {NewAsciiToCanvas(o) : o \in CanvasOptions}
    /\ pc = "idle"
    /\ op = "none"
    /\ prop = <<>>
    /\ text = <<>>
    /\ element = NoElement
    /\ value = <<>>
    /\ surface = NoSurface
    /\ fills = <<>>
    /\ document = <<>>
    /\ remembered = NoRender
    /\ proc = NoProcess
    /\ smoke = NoSmoke
    /\ border = NoBorder

\* this.charMap[p], for any property name p
CharMapLookup ==
    /\ pc = "idle"
    /\ self.kind = "AsciiToImage"
    /\ \E p \in ProbeProps :
        /\ prop' = p
        /\ value' = CharMapGet(p)
    /\ pc' = "returned"
    /\ op' = "charMap"
    /\ UNCHANGED <<self, text, element, surface, fills, document, remembered, pageVars>>

\* converter.convert(t, outputPath), for any text t of texts
ConvertOf(texts) ==
    /\ pc = "idle"
    /\ self.kind = "AsciiToImage"
    /\ \E t \in texts :
        LET lines == Lines(t) IN
        /\ text' = t
        /\ surface' = [width |-> ImageCanvasWidth(self, lines),
                       height |-> ImageCanvasHeight(self, lines)]
        /\ fills' = ConvertFills(self, t)
    /\ pc' = "returned"
    /\ op' = "convert"
    /\ UNCHANGED <<self, prop, element, value, document, remembered, pageVars>>

Convert == ConvertOf(ImageTexts)

\* this.pixelFont[p], for any property name p
PixelFontLookup ==
    /\ pc = "idle"
    /\ self.kind = "AsciiToCanvas"
    /\ \E p \in ProbeProps :
        /\ prop' = p
        /\ value' = PixelFontGet(self, p)
    /\ pc' = "returned"
    /\ op' = "pixelFont"
    /\ UNCHANGED <<self, text, element, surface, fills, document, remembered, pageVars>>

\* asciiConverter.createCanvas(t, el), for any text t of texts and any el of
\* elements, an element or none: the result is null for a text without any
\* column
CreateCanvasOf(texts, elements) ==
    /\ pc = "idle"
    /\ self.kind = "AsciiToCanvas"
    /\ \E t \in texts, el \in elements :
        LET lines == Lines(t) IN
        /\ text' = t
        /\ element' = el
        /\ IF MaxWidth(lines) = 0 \/ Len(lines) = 0
           THEN /\ surface' = NoSurface
                /\ fills' = <<>>
           ELSE /\ surface' = [width |-> CanvasWidth(self, el, lines),
                               height |-> CanvasHeight(self, el, lines)]
                /\ fills' = RenderCells(self, el, lines, 0)
    /\ pc' = "returned"
    /\ op' = "createCanvas"
    /\ UNCHANGED <<self, prop, value, document, remembered, pageVars>>

CreateCanvas == CreateCanvasOf(CanvasTexts, Elements)

\* a remembered render after one more call has returned: between tells
\* whether a render of another text or with another element has come since
Noted ==
    IF remembered = NoRender THEN NoRender
    ELSE [remembered EXCEPT
            !.between = @ \/ text # remembered.text \/ element # remembered.element]

\* Return leaving the renderer with its scale raised by one
ReturnRescaled ==
    /\ pc = "returned"
    /\ pc' = "idle"
    /\ op' = "none"
    /\ prop' = <<>>
    /\ text' = <<>>
    /\ element' = NoElement
    /\ value' = <<>>
    /\ surface' = NoSurface
    /\ fills' = <<>>
    /\ document' = <<>>
    /\ remembered' = Noted
    /\ self' = [self EXCEPT !.scale = @ + 1]
    /\ UNCHANGED pageVars

\* the caller takes the result; the renderer keeps nothing of the call
Return ==
    /\ pc = "returned"
    /\ pc' = "idle"
    /\ op' = "none"
    /\ prop' = <<>>
    /\ text' = <<>>
    /\ element' = NoElement
    /\ value' = <<>>
    /\ surface' = NoSurface
    /\ fills' = <<>>
    /\ document' = <<>>
    /\ remembered' = Noted
    /\ UNCHANGED <<self, pageVars>>

Next ==
    \/ CharMapLookup
    \/ Convert
    \/ PixelFontLookup
    \/ CreateCanvas
    \/ Return

Spec == Init /\ [][Next]_vars

\* the glyph table of a renderer built with any grid size
InitFont ==
    /\ self \in {NewAsciiToCanvas(o) : o \in FontOptions}
    /\ pc = "idle"
    /\ op = "none"
    /\ prop = <<>>
    /\ text = <<>>
    /\ element = NoElement
    /\ value = <<>>
    /\ surface = NoSurface
    /\ fills = <<>>
    /\ document = <<>>
    /\ remembered = NoRender
    /\ proc = NoProcess
    /\ smoke = NoSmoke
    /\ border = NoBorder

NextFont ==
    \/ PixelFontLookup
    \/ Return

SpecFont == InitFont /\ [][NextFont]_vars

(***************************************************************************)
(* Repeated renders on one renderer: one finished render is remembered     *)
(* with the renderer as it was, to compare later renders with.             *)
(***************************************************************************)
\* the longest text of a repeated render
MaxRepeatLen == 2

\* texts of newline, carriage return and 'A'
RepeatTexts == StringsUpTo({10, 13, 65}, MaxRepeatLen)

\* no element, or one of font size 10 and line height 12
RepeatElements == {NoElement, [fontSize |-> 10, lineHeight |-> 12]}

ConvertAgain == ConvertOf(RepeatTexts)

CreateCanvasAgain == CreateCanvasOf(RepeatTexts, RepeatElements)

\* the caller keeps the result of the render that has just returned
Remember ==
    /\ pc = "returned"
    /\ remembered = NoRender
    /\ remembered' = [self |-> self, op |-> op, text |-> text, element |-> element,
                      surface |-> surface, fills |-> fills, between |-> FALSE]
    /\ UNCHANGED <<self, pc, op, prop, text, element, value, surface, fills, document, pageVars>>

NextRepeat ==
    \/ ConvertAgain
    \/ CreateCanvasAgain
    \/ Remember
    \/ Return

SpecRepeat == Init /\ [][NextRepeat]_vars

(***************************************************************************)
(* Markup: stripHtml and extractFromHtml of one AsciiToImage.              *)
(***************************************************************************)
\* the most pieces of a document and the most tokens of a markup text
MaxPieces == 3

MaxTokens == 3

\* what the documents are assembled from: text outside any <pre>, plain <pre>
\* blocks and <pre class="ascii"> blocks, each with the content of its block
Pieces ==
    { \* x
      [kind |-> "text",
       source |-> <<120>>,
       content |-> <<>>],
      \* <p>pre</p>
      [kind |-> "text",
       source |-> <<60, 112, 62, 112, 114, 101, 60, 47, 112, 62>>,
       content |-> <<>>],
      \* <pre>P</pre>
      [kind |-> "pre",
       source |-> <<60, 112, 114, 101, 62, 80, 60, 47, 112, 114, 101, 62>>,
       content |-> <<80>>],
      \* <pre id="p">&amp;Q</pre>
      [kind |-> "pre",
       source |-> <<60, 112, 114, 101, 32, 105, 100, 61, 34, 112, 34, 62, 38, 97, 109, 112, 59, 81, 60, 47, 112, 114, 101, 62>>,
       content |-> <<38, 97, 109, 112, 59, 81>>],
      \* <pre class="ascii">A</pre>
      [kind |-> "ascii",
       source |-> <<60, 112, 114, 101, 32, 99, 108, 97, 115, 115, 61, 34, 97, 115, 99, 105, 105, 34, 62, 65, 60, 47, 112, 114, 101, 62>>,
       content |-> <<65>>],
      \* <PRE CLASS='ascii'>B</PRE>
      [kind |-> "ascii",
       source |-> <<60, 80, 82, 69, 32, 67, 76, 65, 83, 83, 61, 39, 97, 115, 99, 105, 105, 39, 62, 66, 60, 47, 80, 82, 69, 62>>,
       content |-> <<66>>],
      \* <pre id="a" class="ascii"><b>&lt;</b>\n</pre>
      [kind |-> "ascii",
       source |-> <<60, 112, 114, 101, 32, 105, 100, 61, 34, 97, 34, 32, 99, 108, 97, 115, 115, 61, 34, 97, 115, 99, 105, 105, 34, 62, 60, 98, 62, 38, 108, 116, 59, 60, 47, 98, 62, 10, 60, 47, 112, 114, 101, 62>>,
       content |-> <<60, 98, 62, 38, 108, 116, 59, 60, 47, 98, 62, 10>>] }

Documents == StringsUpTo(Pieces, MaxPieces)

\* what the texts handed to stripHtml are assembled from
Tokens ==
    { \* &nbsp;
      <<38, 110, 98, 115, 112, 59>>,
      \* &amp;
      <<38, 97, 109, 112, 59>>,
      \* &lt;
      <<38, 108, 116, 59>>,
      \* &gt;
      <<38, 103, 116, 59>>,
      \* &quot;
      <<38, 113, 117, 111, 116, 59>>,
      \* &#39;
      <<38, 35, 51, 57, 59>>,
      \* <b>
      <<60, 98, 62>>,
      \* lt;
      <<108, 116, 59>>,
      \* X
      <<88>>,
      \* <
      <<60>> }

RECURSIVE Join(_)
Join(parts) == IF parts = <<>> THEN <<>> ELSE parts[1] \o Join(Tail(parts))

\* the content of the file a document is
FileContent(doc) == Join([i \in DOMAIN doc |-> doc[i].source])

MarkupTexts == {Join(ts) : ts \in StringsUpTo(Tokens, MaxTokens)}

InitHtml ==
    /\ self = NewAsciiToImage([pixelSize |-> 0, scale |-> 0, colorMode |-> ""])
    /\ pc = "idle"
    /\ op = "none"
    /\ prop = <<>>
    /\ text = <<>>
    /\ element = NoElement
    /\ value = <<>>
    /\ surface = NoSurface
    /\ fills = <<>>
    /\ document = <<>>
    /\ remembered = NoRender
    /\ proc = NoProcess
    /\ smoke = NoSmoke
    /\ border = NoBorder

\* converter.stripHtml(html), for any markup text
StripHtmlCall ==
    /\ pc = "idle"
    /\ self.kind = "AsciiToImage"
    /\ \E html \in MarkupTexts :
        /\ text' = html
        /\ value' = StripHtml(html)
    /\ pc' = "returned"
    /\ op' = "stripHtml"
    /\ UNCHANGED <<self, prop, element, surface, fills, document, remembered, pageVars>>

\* converter.extractFromHtml(htmlPath), for a file holding any document
ExtractFromHtmlCall ==
    /\ pc = "idle"
    /\ self.kind = "AsciiToImage"
    /\ \E doc \in Documents :
        /\ document' = doc
        /\ text' = FileContent(doc)
        /\ value' = ExtractFromHtml(FileContent(doc))
    /\ pc' = "returned"
    /\ op' = "extractFromHtml"
    /\ UNCHANGED <<self, prop, element, surface, fills, remembered, pageVars>>

NextHtml ==
    \/ StripHtmlCall
    \/ ExtractFromHtmlCall
    \/ Return

SpecHtml == InitHtml /\ [][NextHtml]_vars

(***************************************************************************)
(* The command line of ascii-to-image.js: one run of the script, from the  *)
(* arguments to the exit of the process.  The files are what the run finds *)
(* in its environment: whether the input can be read, what it holds,       *)
(* whether the canvas library encodes the surface and whether the output   *)
(* can be written.                                                         *)
(***************************************************************************)
\* the exit code of a process that has not exited
Running == -1

\* the flags of a run: pixelSize 0 and colorMode "" for a flag not given
CliFlags == [pixelSize : ImagePixelSizes, scale : {0}, colorMode : {"", "monochrome"}]

\* what a text file given as input holds
CliTexts == {<<>>, <<65>>, <<64, 10, 65, 66>>}

\* the documents an .html file given as input holds
CliDocuments == StringsUpTo(Pieces, 1) \cup {<<p, q>> : p, q \in {d \in Pieces : d.content = <<80>> \/ d.content = <<65>>}}

\* error.message of a failed readFileSync and of a failed writeFileSync or toBuffer
ReadError == "ENOENT: no such file or directory"

WriteError == "EACCES: permission denied"

EncodeError == "toBuffer failed"

InitCli ==
    /\ self = NoInstance
    /\ pc = "main"
    /\ op = "none"
    /\ prop = <<>>
    /\ text = <<>>
    /\ element = NoElement
    /\ value = <<>>
    /\ surface = NoSurface
    /\ fills = <<>>
    /\ remembered = NoRender
    /\ smoke = NoSmoke
    /\ border = NoBorder
    /\ \E argc \in 0..2, html, readable, encodes, writable \in BOOLEAN, flags \in CliFlags :
        /\ document \in IF html /\ argc = 2 THEN CliDocuments ELSE {<<>>}
        /\ \E content \in IF html \/ argc < 2 THEN {FileContent(document)} ELSE CliTexts :
            proc = [argc |-> argc, html |-> html, flags |-> flags, content |-> content,
                    readable |-> readable, encodes |-> encodes, writable |-> writable,
                    exitCode |-> Running, wrote |-> FALSE, stdout |-> "", stderr |-> ""]

\* the catch block of the script: console.error('Error:', message), process.exit(1)
Caught(message) ==
    /\ pc' = "exited"
    /\ proc' = [proc EXCEPT !.exitCode = 1, !.stderr = message]

\* lines 232-279: fewer than two arguments print the usage and exit with 1;
\* otherwise the flags are parsed and the converter is constructed
CliMain ==
    /\ pc = "main"
    /\ IF proc.argc < 2
       THEN /\ pc' = "exited"
            /\ proc' = [proc EXCEPT !.exitCode = 1, !.stdout = "Usage"]
            /\ UNCHANGED self
       ELSE /\ self' = NewAsciiToImage(proc.flags)
            /\ pc' = IF proc.html THEN "convertFromHtml" ELSE "convertFromText"
            /\ UNCHANGED proc
    /\ UNCHANGED <<op, prop, text, element, value, surface, fills, document, remembered,
                   smoke, border>>

\* CliConvertFromHtml going on with an empty text when extraction throws
CliConvertFromHtmlLenient ==
    /\ pc = "convertFromHtml"
    /\ op' = "convertFromHtml"
    /\ pc' = "convert"
    /\ text' = IF proc.readable /\ ExtractFromHtml(proc.content).kind = "return"
               THEN ExtractFromHtml(proc.content).text
               ELSE <<>>
    /\ UNCHANGED <<self, prop, element, value, surface, fills, document, remembered,
                   proc, smoke, border>>

\* converter.convertFromHtml up to its call of convert: extractFromHtml reads
\* the file and throws when it cannot, or when it finds no <pre> block
CliConvertFromHtml ==
    /\ pc = "convertFromHtml"
    /\ op' = "convertFromHtml"
    /\ IF ~proc.readable
       THEN Caught(ReadError) /\ UNCHANGED text
       ELSE LET r == ExtractFromHtml(proc.content) IN
            IF r.kind = "throw"
            THEN Caught(r.message) /\ UNCHANGED text
            ELSE /\ text' = r.text
                 /\ pc' = "convert"
                 /\ UNCHANGED proc
    /\ UNCHANGED <<self, prop, element, value, surface, fills, document, remembered,
                   smoke, border>>

\* converter.convertFromText up to its call of convert
CliConvertFromText ==
    /\ pc = "convertFromText"
    /\ op' = "convertFromText"
    /\ IF ~proc.readable
       THEN Caught(ReadError) /\ UNCHANGED text
       ELSE /\ text' = proc.content
            /\ pc' = "convert"
            /\ UNCHANGED proc
    /\ UNCHANGED <<self, prop, element, value, surface, fills, document, remembered,
                   smoke, border>>

\* convert inside the try block: the fills, then toBuffer, then writeFileSync
\* and the two lines of summary; the script ends and the process exits with 0
CliConvert ==
    /\ pc = "convert"
    /\ op' = "convert"
    /\ surface' = [width |-> ImageCanvasWidth(self, Lines(text)),
                   height |-> ImageCanvasHeight(self, Lines(text))]
    /\ fills' = ConvertFills(self, text)
    /\ pc' = "exited"
    /\ proc' = IF ~proc.encodes
               THEN [proc EXCEPT !.exitCode = 1, !.stderr = EncodeError]
               ELSE IF ~proc.writable
               THEN [proc EXCEPT !.wrote = TRUE, !.exitCode = 1, !.stderr = WriteError]
               ELSE [proc EXCEPT !.wrote = TRUE, !.exitCode = 0, !.stdout = "Converted"]
    /\ UNCHANGED <<self, prop, text, element, value, document, remembered, smoke, border>>

NextCli ==
    \/ CliMain
    \/ CliConvertFromHtml
    \/ CliConvertFromText
    \/ CliConvert

SpecCli == InitCli /\ [][NextCli]_vars

(***************************************************************************)
(* The smoke animation of smoke-animation.js: one SmokeAnimation object,   *)
(* its particles, its animation frames and its timers.  The horizontal     *)
(* position of a particle is the coordinate the code compares with the     *)
(* left limit (currentX while it floats, targetPosition once it is at the  *)
(* top), counted in steps to the right of borderLeft + 20: a particle at 0 *)
(* or less has reached the limit.  A pending timer fires at any moment.    *)
(***************************************************************************)
\* the most particles a behaviour holds at once
MaxParticles == 3

\* where the chimney stands, in steps to the right of the limit
StartX == 2

\* the sizes spawnClump draws: 3 + Math.floor(Math.random() * 3)
ClumpSizes == 3..5

\* the sizes the constructor draws: 10 + Math.floor(Math.random() * 3)
FirstClumpSizes == 10..12

NoTimers == [init |-> 0, clump |-> 0, next |-> 0, restart |-> 0]

\* the object after the constructor has run: init() has set its timer
NewSmokeAnimation(chimney, main, size) ==
    [hasChimney |-> chimney, hasBorder |-> main,
     smokeElements |-> <<>>, collectedSmoke |-> <<>>,
     isRunning |-> FALSE, shouldRestart |-> FALSE,
     frames |-> 0, latest |-> FALSE,
     timers |-> [NoTimers EXCEPT !.init = 1],
     isSpawningClump |-> FALSE, clumpSpawnIndex |-> 0, clumpSize |-> size,
     stopped |-> FALSE, restarted |-> FALSE, hit |-> FALSE]

\* floatUpward and moveAlongBorder on one particle: where it can be after
\* the frame.  A floating particle stays where it is without a top border,
\* else drifts and may reach the top unless it has reached the limit; a
\* particle at the top drifts along the border.
MovedTo(s, p) ==
    IF ~p.top /\ ~s.hasBorder
    THEN {p}
    ELSE {q \in [x : 0..StartX, top : BOOLEAN] :
            /\ q.x \in {p.x - 1, p.x, p.x + 1}
            /\ IF p.top THEN q.top ELSE (q.x <= 0 => ~q.top)}

\* the particles after the two loops of animate
Moves(s) ==
    {m \in [1..Len(s.smokeElements) -> [x : 0..StartX, top : BOOLEAN]] :
        \A i \in DOMAIN m : m[i] \in MovedTo(s, s.smokeElements[i])}

\* the particles that reached the top in this frame, in the order of the loop
RECURSIVE Reached(_, _, _)
Reached(old, new, i) ==
    IF i > Len(old)
    THEN <<>>
    ELSE (IF new[i].top /\ ~old[i].top THEN <<i>> ELSE <<>>) \o Reached(old, new, i + 1)

\* stop(): the loop is switched off and the frame it requested last is cancelled
StopOf(s) ==
    [s EXCEPT !.isRunning = FALSE,
              !.frames = IF s.latest THEN @ - 1 ELSE @,
              !.latest = FALSE]

\* startSpawning(): one tracked timer for the first clump
StartSpawningOf(s) == [s EXCEPT !.timers.clump = @ + 1]

\* restart() leaving the tracked spawn timers to fire
RestartedKeepingTimers(s) ==
    LET t == StopOf([s EXCEPT !.isSpawningClump = FALSE, !.shouldRestart = TRUE]) IN
    [t EXCEPT !.smokeElements = <<>>, !.collectedSmoke = <<>>, !.shouldRestart = FALSE,
              !.timers.restart = @ + 1, !.restarted = TRUE]

\* restart(): stop(), every tracked spawn timer cleared, the particles
\* dropped, and a timer of 500 ms set to start again
Restarted(s) ==
    LET t == StopOf([s EXCEPT !.isSpawningClump = FALSE, !.shouldRestart = TRUE]) IN
    [t EXCEPT !.timers.clump = 0, !.timers.next = 0,
              !.smokeElements = <<>>, !.collectedSmoke = <<>>, !.shouldRestart = FALSE,
              !.timers.restart = @ + 1, !.restarted = TRUE]

\* animate() with the particles going to m: nothing when the loop is off;
\* restart() when a particle has reached the limit; else the next frame is
\* requested
AnimateOf(s, m) ==
    IF ~s.isRunning
    THEN s
    ELSE IF \E i \in DOMAIN m : m[i].x <= 0
    THEN [Restarted(s) EXCEPT !.hit = TRUE]
    ELSE [s EXCEPT !.smokeElements = m,
                   !.collectedSmoke = @ \o Reached(s.smokeElements, m, 1),
                   !.frames = @ + 1,
                   !.latest = TRUE]

\* startAnimation(): nothing when the loop is on, else the first frame at once
StartAnimationOf(s, m) ==
    IF s.isRunning THEN s ELSE AnimateOf([s EXCEPT !.isRunning = TRUE], m)

\* spawnNextInClump: one more particle of the clump and a timer for the
\* next, or the clump is complete and a timer is set for the next clump
SpawnNextOf(s) ==
    IF s.shouldRestart
    THEN s
    ELSE IF s.clumpSpawnIndex < s.clumpSize
    THEN [s EXCEPT !.smokeElements = IF s.hasChimney
                                     THEN Append(@, [x |-> StartX, top |-> FALSE])
                                     ELSE @,
                   !.clumpSpawnIndex = @ + 1,
                   !.timers.next = @ + 1]
    ELSE [s EXCEPT !.isSpawningClump = FALSE, !.timers.clump = @ + 1]

\* spawnClump()
SpawnClumpOf(s, size) ==
    IF ~s.hasChimney
    THEN s
    ELSE SpawnNextOf([s EXCEPT !.isSpawningClump = TRUE, !.clumpSpawnIndex = 0,
                               !.clumpSize = size])

InitSmoke ==
    /\ self = NoInstance
    /\ pc = "idle"
    /\ op = "none"
    /\ prop = <<>>
    /\ text = <<>>
    /\ element = NoElement
    /\ value = <<>>
    /\ surface = NoSurface
    /\ fills = <<>>
    /\ document = <<>>
    /\ remembered = NoRender
    /\ proc = NoProcess
    /\ border = NoBorder
    /\ \E chimney, main \in BOOLEAN, size \in FirstClumpSizes :
        smoke = NewSmokeAnimation(chimney, main, size)

\* the timer of init() fires
SmokeInit ==
    /\ smoke.timers.init > 0
    /\ \E m \in Moves(smoke) :
        smoke' = [StartSpawningOf(StartAnimationOf([smoke EXCEPT !.timers.init = @ - 1], m))
                     EXCEPT !.stopped = FALSE, !.hit = FALSE]
    /\ UNCHANGED <<rendererVars, proc, border>>

\* the timer of startSpawning() or the pause between two clumps fires
SmokeClump ==
    /\ smoke.timers.clump > 0
    /\ smoke.hasChimney => Len(smoke.smokeElements) < MaxParticles
    /\ \E size \in ClumpSizes :
        LET s == [smoke EXCEPT !.timers.clump = @ - 1, !.hit = FALSE] IN
        smoke' = IF s.shouldRestart THEN s ELSE SpawnClumpOf(s, size)
    /\ UNCHANGED <<rendererVars, proc, border>>

\* the timer of spawnNextInClump fires
SmokeNext ==
    /\ smoke.timers.next > 0
    /\ (smoke.clumpSpawnIndex < smoke.clumpSize /\ smoke.hasChimney)
            => Len(smoke.smokeElements) < MaxParticles
    /\ smoke' = SpawnNextOf([smoke EXCEPT !.timers.next = @ - 1, !.hit = FALSE])
    /\ UNCHANGED <<rendererVars, proc, border>>

\* the timer of restart() fires: startAnimation(), startSpawning()
SmokeResume ==
    /\ smoke.timers.restart > 0
    /\ \E m \in Moves(smoke) :
        smoke' = [StartSpawningOf(StartAnimationOf([smoke EXCEPT !.timers.restart = @ - 1], m))
                     EXCEPT !.stopped = FALSE, !.hit = FALSE]
    /\ UNCHANGED <<rendererVars, proc, border>>

\* an animation frame fires: the one requested last or an older one
SmokeFrame ==
    /\ smoke.frames > 0
    /\ \E isLatest \in BOOLEAN, m \in Moves(smoke) :
        /\ isLatest => smoke.latest
        /\ ~isLatest => smoke.frames > (IF smoke.latest THEN 1 ELSE 0)
        /\ smoke' = AnimateOf([smoke EXCEPT !.frames = @ - 1,
                                            !.latest = IF isLatest THEN FALSE ELSE @,
                                            !.hit = FALSE], m)
    /\ UNCHANGED <<rendererVars, proc, border>>

\* the page calls stop()
SmokeStop ==
    /\ ~smoke.stopped
    /\ smoke' = [StopOf(smoke) EXCEPT !.stopped = TRUE, !.hit = FALSE]
    /\ UNCHANGED <<rendererVars, proc, border>>

\* the page calls startAnimation() after stop()
SmokeStart ==
    /\ smoke.stopped
    /\ \E m \in Moves(smoke) :
        smoke' = [StartAnimationOf([smoke EXCEPT !.hit = FALSE], m) EXCEPT !.stopped = FALSE]
    /\ UNCHANGED <<rendererVars, proc, border>>

NextSmoke ==
    \/ SmokeInit
    \/ SmokeClump
    \/ SmokeNext
    \/ SmokeResume
    \/ SmokeFrame
    \/ SmokeStop
    \/ SmokeStart

SpecSmoke == InitSmoke /\ [][NextSmoke]_vars

(***************************************************************************)
(* The border of paint-border.js: one PaintBorder object on an element     *)
(* that exists, the canvases it has attached to the document, the handlers *)
(* it has registered for resize and scroll, and the throttled updates that *)
(* wait for an animation frame.  createCanvas makes a canvas and a handler *)
(* together, so both carry the same number.                                *)
(***************************************************************************)
\* the most canvases one behaviour creates
MaxCanvases == 4

\* this.canvas, this.resizeHandler of an object that has none
None == 0

\* the object after the constructor; removedWith holds the handlers whose
\* update was pending when remove() ran, last the last step on the object
NewPaintBorder ==
    [canvas |-> None, resizeHandler |-> None, attached |-> {}, listeners |-> {},
     pending |-> {}, next |-> 1, removedWith |-> {},
     last |-> [kind |-> "new", handler |-> None, drew |-> None, late |-> FALSE]]

\* remove() leaving the handler registered
RemovedKeepingHandler(b) ==
    [b EXCEPT !.attached = @ \ {b.canvas},
              !.canvas = None,
              !.removedWith = @ \cup b.pending,
              !.last = [kind |-> "remove", handler |-> None, drew |-> None, late |-> FALSE]]

\* remove(): the canvas leaves the document, the handler is unregistered
\* from both events, canvas and ctx are null
Removed(b) ==
    [b EXCEPT !.attached = @ \ {b.canvas},
              !.listeners = @ \ {b.resizeHandler},
              !.canvas = None,
              !.removedWith = @ \cup b.pending,
              !.last = [kind |-> "remove", handler |-> None, drew |-> None, late |-> FALSE]]

\* draw(): remove(), createCanvas() with setupResizeHandler(), drawBorder()
Drawn(b) ==
    LET r == Removed(b) IN
    [r EXCEPT !.canvas = b.next,
              !.attached = @ \cup {b.next},
              !.resizeHandler = b.next,
              !.listeners = @ \cup {b.next},
              !.next = @ + 1,
              !.last = [kind |-> "draw", handler |-> None, drew |-> b.next, late |-> FALSE]]

InitBorder ==
    /\ self = NoInstance
    /\ pc = "idle"
    /\ op = "none"
    /\ prop = <<>>
    /\ text = <<>>
    /\ element = NoElement
    /\ value = <<>>
    /\ surface = NoSurface
    /\ fills = <<>>
    /\ document = <<>>
    /\ remembered = NoRender
    /\ proc = NoProcess
    /\ smoke = NoSmoke
    /\ border = NewPaintBorder

BorderDraw ==
    /\ border.next <= MaxCanvases
    /\ border' = Drawn(border)
    /\ UNCHANGED <<rendererVars, proc, smoke>>

\* redraw(): remove(), draw()
BorderRedraw ==
    /\ border.next <= MaxCanvases
    /\ border' = [Drawn(Removed(border)) EXCEPT !.last.kind = "redraw"]
    /\ UNCHANGED <<rendererVars, proc, smoke>>

BorderRemove ==
    /\ border' = Removed(border)
    /\ UNCHANGED <<rendererVars, proc, smoke>>

\* a resize or scroll event: every registered throttledUpdate that is not
\* ticking requests an animation frame
BorderEvent ==
    /\ border.listeners \ border.pending # {}
    /\ \E event \in {"resize", "scroll"} :
        border' = [border EXCEPT !.pending = @ \cup border.listeners,
                                 !.last = [kind |-> event, handler |-> None, drew |-> None,
                                           late |-> FALSE]]
    /\ UNCHANGED <<rendererVars, proc, smoke>>

\* the animation frame of one throttledUpdate: updateBorder returns when
\* there is no canvas, else it calls drawBorder on this.canvas
BorderFrame ==
    /\ \E h \in border.pending :
        border' = [border EXCEPT !.pending = @ \ {h},
                                 !.removedWith = @ \ {h},
                                 !.last = [kind |-> "update", handler |-> h,
                                           drew |-> border.canvas,
                                           late |-> h \in border.removedWith]]
    /\ UNCHANGED <<rendererVars, proc, smoke>>

NextBorder ==
    \/ BorderDraw
    \/ BorderRedraw
    \/ BorderRemove
    \/ BorderEvent
    \/ BorderFrame

SpecBorder == InitBorder /\ [][NextBorder]_vars

(***************************************************************************)
(* Properties.  Rows, Cols and CellChar describe the call in progress.     *)
(***************************************************************************)
Rows == Len(Lines(text))

Cols == MaxWidth(Lines(text))

\* the character of cell k = y * Cols + x of the text, a space past a row's end
CellChar(k) == CharAt(Lines(text)[(k \div Cols) + 1], k % Cols)

RectsDisjoint(a, b) ==
    \/ a.x + a.w <= b.x
    \/ b.x + b.w <= a.x
    \/ a.y + a.h <= b.y
    \/ b.y + b.h <= a.y

RECURSIVE AreaSum(_)
AreaSum(rects) ==
    IF rects = <<>> THEN 0 ELSE rects[1].w * rects[1].h + AreaSum(Tail(rects))

\* C1: a single character that is no key of the brightness table has
\* brightness min(255, code unit mod 256).
C1_UnknownBrightness ==
    (op = "charMap" /\ Len(prop) = 1 /\ prop[1] \notin DOMAIN CharMapTarget)
        => value = Min(255, prop[1] % 256)

\* U+0129 is in no table: 297 mod 256 = 41
C1_Witness == op = "charMap" /\ prop = <<297>> /\ value = 41

\* C2: a single character that is no key of the glyph table maps to a
\* charHeight x charWidth grid of false cells, and createCanvas issues every
\* fill for a cell whose character is a key of the table, none for other cells.
C2_UnknownGlyphEmpty ==
    /\ (op = "pixelFont" /\ Len(prop) = 1 /\ prop[1] \notin DOMAIN FontSource)
        => /\ Len(value) = self.charHeight
           /\ \A y \in 1..self.charHeight :
                /\ Len(value[y]) = self.charWidth
                /\ \A x \in 1..self.charWidth : value[y][x] = FALSE
    /\ op = "createCanvas"
        => \A i \in DOMAIN fills :
             CellChar(fills[i].cy * Cols + fills[i].cx) \in DOMAIN FontSource

\* "A" next to U+0080: the sixteen fills of 'A' and nothing for U+0080
C2_Witness ==
    /\ op = "createCanvas"
    /\ text = <<65, 128>>
    /\ Len(fills) = 16
    /\ \A i \in DOMAIN fills : fills[i].cx = 0

\* C3: convert creates a surface that is (longest row) * pixelSize * scale
\* wide and (number of rows) * pixelSize * scale high; the rows are the text
\* split on line breaks, one more than the text has newlines.
C3_ImageSurfaceSize ==
    op = "convert"
        => /\ Rows = 1 + Cardinality({i \in DOMAIN text : text[i] = 10})
           /\ \A i \in 1..Rows : Len(Lines(text)[i]) <= Cols
           /\ Rows > 0 => \E i \in 1..Rows : Len(Lines(text)[i]) = Cols
           /\ surface.width = Cols * self.pixelSize * self.scale
           /\ surface.height = Rows * self.pixelSize * self.scale

\* "AB" and an empty second row at pixelSize 8, scale 2
C3_Witness ==
    /\ op = "convert"
    /\ text = <<65, 66, 10>>
    /\ self.pixelSize = 8
    /\ self.scale = 2
    /\ surface = [width |-> 32, height |-> 32]

\* C4 as stated: for a text with a non-empty row createCanvas returns a
\* surface exactly columns * cellWidth wide and (rows - 1) * lineHeight +
\* cellHeight high.
C4_Original ==
    (op = "createCanvas" /\ Cols > 0)
        => /\ surface # NoSurface
           /\ surface.width * Unit = Cols * CharPixelWidth(self, element)
           /\ surface.height * Unit =
                (Rows - 1) * LineHeight(self, element) + CharPixelHeight(self)

\* C4 amended: the width and the height are those two lengths rounded up to
\* whole pixels; cellWidth and lineHeight are the glyph's own width and
\* height without an element and 0.6 and 1.2 times the font size (or the
\* element's line height) with one, cellHeight is the glyph's own height.
C4_CanvasSizeRoundedUp ==
    (op = "createCanvas" /\ Cols > 0)
        => LET cellWidth ==
                   IF element = NoElement
                   THEN self.charWidth * self.pixelSize * self.scale
                   ELSE (6 * (IF element.fontSize = 0 THEN 16 ELSE element.fontSize) * Unit) \div 10
               cellHeight == self.charHeight * self.pixelSize * self.scale
               lineHeight ==
                   IF element = NoElement THEN cellHeight
                   ELSE IF element.lineHeight # 0 THEN element.lineHeight * Unit
                   ELSE (12 * (IF element.fontSize = 0 THEN 16 ELSE element.fontSize) * Unit) \div 10
               w == Cols * cellWidth
               h == (Rows - 1) * lineHeight + cellHeight
           IN  /\ surface # NoSurface
               /\ (surface.width - 1) * Unit < w
               /\ w <= surface.width * Unit
               /\ (surface.height - 1) * Unit < h
               /\ h <= surface.height * Unit

\* "A" at the default pixelSize 2.5: a 12.5 x 17.5 cell on a 13 x 18 canvas
C4_Witness ==
    /\ op = "createCanvas"
    /\ text = <<65>>
    /\ element = NoElement
    /\ self.pixelSize = 25
    /\ self.scale = 1
    /\ surface = [width |-> 13, height |-> 18]

\* C5: convert fills, after the background, exactly one block per cell (x, y)
\* at (x * pixelSize * scale, y * pixelSize * scale) with side pixelSize *
\* scale; the blocks lie inside the surface, are pairwise disjoint and their
\* areas add up to the surface's area, so they cover it without gap or overlap.
C5_ImageTiling ==
    op = "convert"
        => LET side == self.pixelSize * self.scale
               blocks == Tail(fills)
           IN  /\ Len(blocks) = Cols * Rows
               /\ \A x \in 0..(Cols - 1), y \in 0..(Rows - 1) :
                    Cardinality({i \in DOMAIN blocks :
                                    /\ blocks[i].x = x * side
                                    /\ blocks[i].y = y * side}) = 1
               /\ \A i \in DOMAIN blocks :
                    /\ blocks[i].w = side /\ blocks[i].h = side
                    /\ blocks[i].x >= 0 /\ blocks[i].x + side <= surface.width
                    /\ blocks[i].y >= 0 /\ blocks[i].y + side <= surface.height
               /\ \A i, j \in DOMAIN blocks :
                    i < j => RectsDisjoint(blocks[i], blocks[j])
               /\ AreaSum(blocks) = surface.width * surface.height

\* two rows of two cells at scale 2: the background and four blocks
C5_Witness ==
    /\ op = "convert"
    /\ text = <<65, 66, 10>>
    /\ self.scale = 2
    /\ Len(fills) = 5

\* C6 as stated: every rectangle filled for the character at cell (x, y) lies
\* inside the cell's region at (x * cellWidth, y * lineHeight), rectangles of
\* different cells never intersect, and none extends past the surface.
C6_Original ==
    op = "createCanvas"
        => LET cw == CharPixelWidth(self, element)
               lh == LineHeight(self, element)
               regionH(cy) == IF cy = Rows - 1 THEN CharPixelHeight(self) ELSE lh
           IN  /\ \A i \in DOMAIN fills :
                    /\ fills[i].cx * cw <= fills[i].x
                    /\ fills[i].x + fills[i].w <= (fills[i].cx + 1) * cw
                    /\ fills[i].cy * lh <= fills[i].y
                    /\ fills[i].y + fills[i].h <= fills[i].cy * lh + regionH(fills[i].cy)
               /\ \A i, j \in DOMAIN fills :
                    (fills[i].cx # fills[j].cx \/ fills[i].cy # fills[j].cy)
                        => RectsDisjoint(fills[i], fills[j])
               /\ \A i \in DOMAIN fills :
                    /\ fills[i].x + fills[i].w <= surface.width * Unit
                    /\ fills[i].y + fills[i].h <= surface.height * Unit

\* C7: in monochrome mode a cell of brightness above 128 is filled with the
\* foreground colour and a cell of brightness 128 or less with the background
\* colour; "@" alone yields one cell filled #ffffff.
C7_MonochromeThreshold ==
    (op = "convert" /\ self.colorMode = "monochrome")
        => /\ Len(fills) = 1 + Cols * Rows
           /\ \A k \in 0..(Cols * Rows - 1) :
                LET i == CharMapGet(<<CellChar(k)>>) IN
                /\ i > 128 => fills[k + 2].style = Css(self.foregroundColor)
                /\ i <= 128 => fills[k + 2].style = Css(self.backgroundColor)
                /\ CellChar(k) = 128 => fills[k + 2].style = Css("#000000")
           /\ text = <<64>> => Len(fills) = 2 /\ fills[2].style = Css("#ffffff")

\* U+0080 has brightness exactly 128 and is filled with the background colour
C7_Witness ==
    /\ op = "convert"
    /\ self.colorMode = "monochrome"
    /\ text = <<128, 64>>
    /\ fills[2].style = Css("#000000")
    /\ fills[3].style = Css("#ffffff")

\* C8: in grayscale mode every cell is filled with rgb(i, i, i), i the
\* brightness of its character; "A B" at the default configuration yields a
\* surface of 3 x 1 cells filled with gray 180, 0 and 180.
C8_Grayscale ==
    (op = "convert" /\ self.colorMode = "grayscale")
        => /\ Len(fills) = 1 + Cols * Rows
           /\ \A k \in 0..(Cols * Rows - 1) :
                LET i == CharMapGet(<<CellChar(k)>>) IN
                fills[k + 2].style = <<"rgb", i, i, i>>
           /\ (text = <<65, 32, 66>> /\ self.pixelSize = 8 /\ self.scale = 1)
                => /\ surface = [width |-> 24, height |-> 8]
                   /\ [k \in 1..3 |-> fills[k + 1].style]
                        = << <<"rgb", 180, 180, 180>>, <<"rgb", 0, 0, 0>>, <<"rgb", 180, 180, 180>> >>
                   /\ [k \in 1..3 |-> fills[k + 1].x] = <<0, 8, 16>>

C8_Witness ==
    /\ op = "convert"
    /\ self.colorMode = "grayscale"
    /\ self.pixelSize = 8
    /\ self.scale = 1
    /\ text = <<65, 32, 66>>
    /\ Len(fills) = 4
    /\ fills[4].style = <<"rgb", 180, 180, 180>>

\* C9 as stated: the i-th entry (from 0) of the light list has brightness
\* 255 - 10 * i in the finished table.
C9_Original ==
    \A k \in DOMAIN LightChars :
        (op = "charMap" /\ prop = <<LightChars[k]>>) => value = 255 - 10 * (k - 1)

\* C9 amended: that holds for '@', '$', '%', '&' and the four block-shading
\* glyphs; '#', '*', '+', '=' and '~' are assigned again later and end at
\* 240, 220, 160, 200 and 130.
C9_LightBrightness ==
    op = "charMap"
        => /\ \A k \in {1, 3, 4, 5, 10, 11, 12, 13} :
                prop = <<LightChars[k]>> => value = 255 - 10 * (k - 1)
           /\ prop = <<35>> => value = 240
           /\ prop = <<42>> => value = 220
           /\ prop = <<43>> => value = 160
           /\ prop = <<61>> => value = 200
           /\ prop = <<126>> => value = 130

\* the light shade U+2591, last of the list: 255 - 10 * 12
C9_Witness == op = "charMap" /\ prop = <<9617>> /\ value = 135

\* C10 as stated: every letter and every digit has brightness 180.
C10_Original ==
    (op = "charMap" /\ Len(prop) = 1
        /\ prop[1] \in (65..90) \cup (97..122) \cup (48..57))
        => value = 180

\* C10 amended: every digit and every upper-case letter other than 'X' has
\* brightness 180; 'X' has 190, 'o' 140, 'x' 150, and every other lower-case
\* letter, being no key of the table, has its code unit as brightness.
C10_AlphanumericBrightness ==
    (op = "charMap" /\ Len(prop) = 1)
        => /\ prop[1] \in ((65..90) \ {88}) \cup (48..57) => value = 180
           /\ prop[1] = 88 => value = 190
           /\ prop[1] = 111 => value = 140
           /\ prop[1] = 120 => value = 150
           /\ prop[1] \in (97..122) \ {111, 120} => value = prop[1]

C10_Witness == op = "charMap" /\ prop = <<57>> /\ value = 180

\* C11 as stated: space, tab, newline and carriage return each have
\* brightness 0.
C11_Original ==
    (op = "charMap" /\ prop \in {<<32>>, <<9>>, <<10>>, <<13>>}) => value = 0

\* C12: for every single character, in the table or not, the brightness lookup
\* answers with an integer from 0 to 255; so is the gray of every cell that
\* convert fills in grayscale mode.
C12_BrightnessBounded ==
    /\ (op = "charMap" /\ Len(prop) = 1) => value \in 0..255
    /\ (op = "convert" /\ self.colorMode = "grayscale")
        => \A i \in 2..Len(fills) : fills[i].style[2] \in 0..255

\* the last code unit, U+FFFF: 65535 mod 256
C12_Witness == op = "charMap" /\ prop = <<65535>> /\ value = 255

\* the characters of cell (cx, cy) of the text in progress: none for a padding
\* cell past the end of its row
RowOf(cy) == Lines(text)[cy + 1]

IsPadding(cx, cy) == cx >= Len(RowOf(cy))

\* C13: createCanvas issues no fill for a cell whose character is space, tab,
\* newline or carriage return, nor for a padding cell past the end of a row.
C13_WhitespaceDrawsNothing ==
    op = "createCanvas"
        => \A i \in DOMAIN fills :
             /\ ~IsPadding(fills[i].cx, fills[i].cy)
             /\ RowOf(fills[i].cy)[fills[i].cx + 1] \notin {32, 9, 10, 13}

\* a tab and a carriage return before 'A', and a shorter second row: the
\* only fills are the sixteen of 'A' in column 2 of row 0
C13_Witness ==
    /\ op = "createCanvas"
    /\ text \in {<<9, 13, 65>>, <<32, 65, 10>>}
    /\ Len(fills) = 16
    /\ \A i \in DOMAIN fills : fills[i].cy = 0 /\ fills[i].cx = Len(text) - (IF text[Len(text)] = 10 THEN 2 ELSE 1)

\* the number of true cells of a grid
TrueCells(grid) ==
    Cardinality({<<y, x>> \in (DOMAIN grid) \X (1..Len(grid[1])) : grid[y][x]})

\* C15 as stated: the glyph for "." has exactly one true cell and a render of
\* "." issues exactly one fill.
C15_Original ==
    /\ (op = "pixelFont" /\ prop = <<46>>) => TrueCells(value) = 1
    /\ (op = "createCanvas" /\ text = <<46>>) => Len(fills) = 1

\* C15 amended: the glyph for "." is a 7 x 5 grid with exactly two true cells,
\* the middle column of the last two rows, and a render of "." issues exactly
\* two fills.
C15_DotGlyph ==
    /\ (op = "pixelFont" /\ prop = <<46>> /\ self.charWidth = 5 /\ self.charHeight = 7)
        => /\ Len(value) = 7
           /\ \A y \in 1..7 : Len(value[y]) = 5
           /\ \A y \in 1..7, x \in 1..5 : value[y][x] <=> (x = 3 /\ y \in {6, 7})
    /\ (op = "createCanvas" /\ text = <<46>>)
        => /\ Len(fills) = 2
           /\ <<fills[1].px, fills[1].py>> = <<2, 5>>
           /\ <<fills[2].px, fills[2].py>> = <<2, 6>>

C15_Witness == op = "createCanvas" /\ text = <<46>> /\ Len(fills) = 2

\* C16 as stated: every letter, upper and lower case, and every digit maps to
\* a grid with at least one true cell.
C16_Original ==
    (op = "pixelFont" /\ Len(prop) = 1
        /\ prop[1] \in (65..90) \cup (97..122) \cup (48..57))
        => TrueCells(value) >= 1

\* C16 amended: every upper-case letter, every digit and the lower-case
\* letters 'o' and 'x' map to a grid with at least one true cell; every other
\* lower-case letter is no key of the table and maps to the empty grid.
C16_GlyphCoverage ==
    (op = "pixelFont" /\ Len(prop) = 1)
        => /\ prop[1] \in (65..90) \cup (48..57) \cup {111, 120} => TrueCells(value) >= 1
           /\ prop[1] \in (97..122) \ {111, 120} => TrueCells(value) = 0

\* 'Q' has fifteen true cells
C16_Witness == op = "pixelFont" /\ prop = <<81>> /\ TrueCells(value) = 15

\* C17: for every non-whitespace character at cell (x, y) createCanvas issues
\* exactly one fill per true cell (px, py) of its glyph grid, at
\* (x * cellWidth + px * pixelSize * scale, y * lineHeight + py * pixelSize *
\* scale) with side pixelSize * scale, none for a false cell, and every fill
\* has the configured line colour.
C17_GlyphFillGeometry ==
    (op = "createCanvas" /\ surface # NoSurface)
        => LET side == self.pixelSize * self.scale
               cw == CharPixelWidth(self, element)
               lh == LineHeight(self, element)
               gridAt(cx, cy) == PixelFontGet(self, <<RowOf(cy)[cx + 1]>>)
           IN  /\ \A cy \in 0..(Rows - 1), cx \in 0..(Cols - 1) :
                    (~IsPadding(cx, cy) /\ RowOf(cy)[cx + 1] \notin {32, 9, 10, 13})
                        => \A py \in 0..(self.charHeight - 1), px \in 0..(self.charWidth - 1) :
                             Cardinality({i \in DOMAIN fills :
                                             /\ fills[i].x = cx * cw + px * side
                                             /\ fills[i].y = cy * lh + py * side
                                             /\ fills[i].cx = cx /\ fills[i].cy = cy})
                               = IF gridAt(cx, cy)[py + 1][px + 1] THEN 1 ELSE 0
               /\ \A i \in DOMAIN fills :
                    /\ fills[i].w = side /\ fills[i].h = side
                    /\ fills[i].style = <<"css", self.lineColor>>
                    /\ fills[i].x = fills[i].cx * cw + fills[i].px * side
                    /\ fills[i].y = fills[i].cy * lh + fills[i].py * side

\* "A" in the second row under an element of font size 10 and line height 12:
\* its first true cell (1, 0) is filled at (2.5, 12) with side 2.5
C17_Witness ==
    /\ op = "createCanvas"
    /\ text = <<10, 65>>
    /\ element = [fontSize |-> 10, lineHeight |-> 12]
    /\ self.pixelSize = 25
    /\ self.scale = 1
    /\ Len(fills) = 16
    /\ fills[1].x = 25 /\ fills[1].y = 120 /\ fills[1].w = 25

\* C14: for every character, known or not, pixelFont[c] has exactly
\* charHeight rows of exactly charWidth booleans, 7 and 5 when the options
\* name no grid size, whatever the length and the number of the rows of the
\* template it was compiled from.
C14_GridDimensions ==
    /\ self.charHeight \in (GridHeights \ {0}) \cup {7}
    /\ self.charWidth \in (GridWidths \ {0}) \cup {5}
    /\ op = "pixelFont"
        => /\ DOMAIN value = 1..self.charHeight
           /\ \A y \in DOMAIN value :
                /\ DOMAIN value[y] = 1..self.charWidth
                /\ \A x \in DOMAIN value[y] : value[y][x] \in BOOLEAN

\* 'N', whose template has a row of six characters, on the default grid and on
\* a grid of eight rows of four: the eighth row is all false
C14_Witness ==
    /\ op = "pixelFont"
    /\ prop = <<78>>
    /\ \/ self.charWidth = 5 /\ self.charHeight = 7 /\ Len(value) = 7 /\ Len(value[2]) = 5
       \/ /\ self.charWidth = 4 /\ self.charHeight = 8
          /\ Len(value) = 8 /\ Len(value[2]) = 4
          /\ \A x \in 1..4 : ~value[8][x]

\* the positions of the newlines of the text in progress, and its rows before
\* normalisation: row r runs from after the (r-1)-th newline to before the r-th
NewlineAt == {i \in DOMAIN text : text[i] = 10}

RawStart(r) ==
    IF r = 1 THEN 1
    ELSE (CHOOSE i \in NewlineAt : Cardinality({j \in NewlineAt : j < i}) = r - 2) + 1

RawEnd(r) ==
    IF r = Cardinality(NewlineAt) + 1 THEN Len(text)
    ELSE (CHOOSE i \in NewlineAt : Cardinality({j \in NewlineAt : j < i}) = r - 1) - 1

RawRow(r) == SubSeq(text, RawStart(r), RawEnd(r))

\* C19: in both renderers the rows of a text are as many as its newlines plus
\* one, each row is the row before normalisation without at most one carriage
\* return at its end, every other character stays at its column, and each
\* renderer fills a cell for the character the row had at that column.
C19_LineBreakNormalization ==
    op \in {"convert", "createCanvas"}
        => LET lines == Lines(text) IN
           /\ Len(lines) = Cardinality(NewlineAt) + 1
           /\ \A r \in 1..Len(lines) :
                LET raw == RawRow(r)
                    cut == IF raw # <<>> /\ raw[Len(raw)] = 13 THEN 1 ELSE 0
                IN  /\ Len(lines[r]) = Len(raw) - cut
                    /\ \A c \in 1..Len(lines[r]) : lines[r][c] = raw[c]
           /\ (op = "convert" /\ self.colorMode = "grayscale")
                => \A r \in 1..Len(lines) : \A c \in 1..Len(lines[r]) :
                     LET f == fills[1 + (r - 1) * Cols + c] IN
                     /\ f.x = (c - 1) * self.pixelSize * self.scale
                     /\ f.y = (r - 1) * self.pixelSize * self.scale
                     /\ f.style = <<"rgb", CharMapGet(<<RawRow(r)[c]>>),
                                    CharMapGet(<<RawRow(r)[c]>>), CharMapGet(<<RawRow(r)[c]>>)>>
           /\ op = "createCanvas"
                => \A i \in DOMAIN fills :
                     /\ fills[i].cy + 1 <= Len(lines)
                     /\ fills[i].cx + 1 <= Len(RawRow(fills[i].cy + 1))
                     /\ HasPixels(self, PixelFontGet(self, <<RawRow(fills[i].cy + 1)[fills[i].cx + 1]>>))

\* a row with a carriage return before 'A' and one at its end: two columns,
\* 'A' in the second
C19_Witness ==
    \/ /\ op = "convert"
       /\ text = <<13, 65, 13>>
       /\ self.colorMode = "grayscale"
       /\ surface.width = 2 * self.pixelSize * self.scale
       /\ Len(fills) = 3
       /\ fills[3].style = <<"rgb", 180, 180, 180>>
    \/ /\ op = "createCanvas"
       /\ text = <<13, 65, 13>>
       /\ Len(fills) = 16
       /\ \A i \in DOMAIN fills : fills[i].cx = 1

\* the first piece of the document in progress that is of one of the kinds, 0
\* for none
FirstPiece(kinds) == First({i \in DOMAIN document : document[i].kind \in kinds})

\* C18: extractFromHtml returns the stripped content of the first
\* <pre class="ascii"> block, in any letter case, whenever the document has
\* one, also after a plain <pre> block; otherwise that of the first <pre>
\* block; and it throws the no-art-found error, returning nothing, when the
\* document has no <pre> block.
C18_ExtractionPriority ==
    op = "extractFromHtml"
        => LET classed == FirstPiece({"ascii"})
               any == FirstPiece({"pre", "ascii"})
           IN  IF classed # 0
               THEN value = [kind |-> "return", text |-> StripHtml(document[classed].content)]
               ELSE IF any # 0
               THEN value = [kind |-> "return", text |-> StripHtml(document[any].content)]
               ELSE value = [kind |-> "throw", message |-> "No ASCII art found in HTML file"]

\* <pre>P</pre> before <PRE CLASS='ascii'>B</PRE>: the result is "B"
C18_Witness ==
    /\ op = "extractFromHtml"
    /\ Len(document) = 2
    /\ document[1].kind = "pre"
    /\ document[1].content = <<80>>
    /\ document[2].kind = "ascii"
    /\ document[2].content = <<66>>
    /\ value = [kind |-> "return", text |-> <<66>>]

\* decoding in one pass: each escape found in s, from left to right, stands
\* for its character, and a character so produced is not read again
RECURSIVE DecodeOnceFrom(_, _)
DecodeOnceFrom(s, i) ==
    IF i > Len(s) THEN <<>>
    ELSE LET hits == {k \in DOMAIN Entities : At(s, i, Entities[k][1])} IN
         IF hits # {}
         THEN LET k == CHOOSE h \in hits : TRUE IN
              Entities[k][2] \o DecodeOnceFrom(s, i + Len(Entities[k][1]))
         ELSE <<s[i]>> \o DecodeOnceFrom(s, i + 1)

\* C20 as stated: in the output of stripHtml every markup tag of the input has
\* been taken out and every occurrence of &amp;, &lt;, &gt;, &quot;, &#39; and
\* &nbsp; left in it has been replaced by its character.
C20_Original ==
    op = "stripHtml" => value = DecodeOnceFrom(StripTags(text), 1)

\* the rows of the text in progress without the one carriage return convert
\* and createCanvas take off the end of a row, and the longest of them
KeptLen(r) ==
    LET raw == RawRow(r) IN
    IF raw # <<>> /\ raw[Len(raw)] = 13 THEN Len(raw) - 1 ELSE Len(raw)

RowCount == Cardinality(NewlineAt) + 1

Widest == CHOOSE w \in {KeptLen(r) : r \in 1..RowCount} : \A r \in 1..RowCount : KeptLen(r) <= w

C24_RaggedRows ==
    op = "convert"
        => /\ Len(fills) = 1 + RowCount * Widest
           /\ \A y \in 0..(RowCount - 1) :
                /\ Len(Lines(text)[y + 1]) = KeptLen(y + 1)
                /\ \A x \in KeptLen(y + 1)..(Widest - 1) :
                     LET i == 2 + y * Widest + x IN
                     /\ fills[i].x = x * self.pixelSize * self.scale
                     /\ fills[i].y = y * self.pixelSize * self.scale
                     /\ fills[i].style =
                          CASE self.colorMode = "grayscale" -> <<"rgb", 0, 0, 0>>
                            [] self.colorMode = "monochrome" -> <<"css", self.backgroundColor>>
                            [] self.colorMode = "color" -> <<"hsl", 80256, 0, 0>>
                            [] OTHER -> fills[i - 1].style

\* an empty row above "@@" in grayscale: the two cells of the first row are
\* black, the two of the second white
C24_Witness ==
    /\ op = "convert"
    /\ text = <<10, 64, 64>>
    /\ self.colorMode = "grayscale"
    /\ Len(fills) = 5
    /\ fills[2].style = <<"rgb", 0, 0, 0>>
    /\ fills[3].style = <<"rgb", 0, 0, 0>>
    /\ fills[4].style = <<"rgb", 255, 255, 255>>

\* C25: the first fill of convert covers the whole surface in the configured
\* background colour, and the fills after it are one per cell in row-major
\* order: the k-th of them, counted from 0, is the block of column k mod
\* columns of row k div columns; all of them are issued when convert returns.
C25_WriteOrder ==
    op = "convert"
        => LET side == self.pixelSize * self.scale IN
           /\ pc = "returned"
           /\ fills[1] = [x |-> 0, y |-> 0, w |-> surface.width, h |-> surface.height,
                          style |-> <<"css", self.backgroundColor>>]
           /\ surface.width = Widest * side
           /\ surface.height = RowCount * side
           /\ Len(fills) = 1 + RowCount * Widest
           /\ \A k \in 0..(RowCount * Widest - 1) :
                /\ fills[k + 2].x = (k % Widest) * side
                /\ fills[k + 2].y = (k \div Widest) * side

\* two rows of one cell: the block of the second row comes last
C25_Witness ==
    /\ op = "convert"
    /\ text = <<65, 13, 10>> \/ text = <<65, 10, 66>>
    /\ Len(fills) = 3
    /\ fills[1].w = self.pixelSize * self.scale
    /\ fills[1].h = 2 * self.pixelSize * self.scale
    /\ fills[2].y = 0
    /\ fills[3].y = self.pixelSize * self.scale

\* the escaped form of a text: & < > " ' written as &amp; &lt; &gt; &quot; &#39;
RECURSIVE Escape(_)
Escape(t) ==
    IF t = <<>> THEN <<>>
    ELSE (CASE t[1] = 38 -> Entities[2][1]
            [] t[1] = 60 -> Entities[3][1]
            [] t[1] = 62 -> Entities[4][1]
            [] t[1] = 34 -> Entities[5][1]
            [] t[1] = 39 -> Entities[6][1]
            [] OTHER -> <<t[1]>>) \o Escape(Tail(t))

\* C26 as stated: stripHtml applied to the escaped form of a text t returns t;
\* the text of the call is the escaped form of what one pass decodes it to.
C26_Original ==
    (op = "stripHtml" /\ Escape(DecodeOnceFrom(text, 1)) = text)
        => value = DecodeOnceFrom(text, 1)

\* C27: when colorMode is none of grayscale, color and monochrome, convert
\* returns and every fill, the background and each cell, has the configured
\* background colour.
C27_UnrecognizedMode ==
    (op = "convert" /\ self.colorMode \notin {"grayscale", "color", "monochrome"})
        => /\ pc = "returned"
           /\ Len(fills) = 1 + RowCount * Widest
           /\ \A i \in DOMAIN fills : fills[i].style = <<"css", self.backgroundColor>>

\* "@A" in mode sepia: three fills, all in the background colour
C27_Witness ==
    /\ op = "convert"
    /\ self.colorMode = "sepia"
    /\ text = <<64, 65>>
    /\ Len(fills) = 3
    /\ fills[2].style = <<"css", "#000000">>


InputOk ==
    /\ proc.readable
    /\ proc.html => \E i \in DOMAIN document : document[i].kind \in {"pre", "ascii"}

\* C21: a run with both paths given exits with 1 when reading the input,
\* extraction, encoding or writing the output fails and with 0 when all of
\* them succeed; a run whose reading or extraction fails never calls
\* writeFileSync.
C21_CliExitStatus ==
    proc.argc = 2
        => /\ pc = "exited"
                => proc.exitCode = IF InputOk /\ proc.encodes /\ proc.writable THEN 0 ELSE 1
           /\ pc # "exited" => proc.exitCode = Running
           /\ ~InputOk => ~proc.wrote
           /\ proc.wrote => pc = "exited"
           /\ (pc = "exited" /\ proc.exitCode = 0) => proc.wrote /\ Len(fills) >= 1

\* an .html input without any <pre> block: exit code 1 with the message of
\* extractFromHtml and no write
C21_Witness ==
    /\ pc = "exited"
    /\ proc.argc = 2
    /\ proc.html
    /\ proc.readable
    /\ Len(document) = 1
    /\ document[1].kind = "text"
    /\ proc.exitCode = 1
    /\ proc.stderr = "No ASCII art found in HTML file"
    /\ ~proc.wrote


\* the spawn timers that are pending: the chains of clumps that are running
SpawnTimers == smoke.timers.clump + smoke.timers.next

\* C28: a frame in which a particle reaches the left limit ends in restart(),
\* so no frame leaves a particle at the limit; until the pause of the restart
\* has elapsed there is no particle, no collected particle and no spawn timer;
\* once it has elapsed there is one chain of clumps, and one animation loop
\* unless the page has stopped it.
C28_Restart ==
    /\ \A i \in DOMAIN smoke.smokeElements : smoke.smokeElements[i].x >= 1
    /\ smoke.hit => smoke.timers.restart = 1 /\ ~smoke.isRunning /\ smoke.frames = 0
    /\ smoke.timers.restart > 0
            => /\ smoke.timers.restart = 1
               /\ smoke.smokeElements = <<>>
               /\ smoke.collectedSmoke = <<>>
               /\ SpawnTimers = 0
    /\ (smoke.restarted /\ smoke.timers.restart = 0)
            => /\ SpawnTimers = 1
               /\ ~smoke.stopped => smoke.isRunning /\ smoke.frames = 1

\* after a restart and its pause a new clump is rising, one of its particles
\* at the top
C28_Witness ==
    /\ smoke.restarted
    /\ smoke.timers.restart = 0
    /\ smoke.isRunning
    /\ Len(smoke.smokeElements) = 2
    /\ Len(smoke.collectedSmoke) = 1

\* C29 as stated: between stop() and the next start of the animation no
\* particle moves and none is spawned.
C29_Original ==
    [][(smoke.stopped /\ smoke'.stopped) => smoke'.smokeElements = smoke.smokeElements]_vars


\* at most one canvas attached and one handler registered, and none of
\* either after remove()
OneCanvasOneHandler ==
    /\ Cardinality(border.attached) <= 1
    /\ Cardinality(border.listeners) <= 1
    /\ border.canvas = None => border.attached = {} /\ border.listeners = {}
    /\ border.canvas # None
            => border.attached = {border.canvas} /\ border.listeners = {border.resizeHandler}

\* C30 as stated: one canvas and one handler at most, none after remove(),
\* and an update that was pending when remove() ran draws nothing.
C30_Original ==
    /\ OneCanvasOneHandler
    /\ (border.last.kind = "update" /\ border.last.late) => border.last.drew = None

\* C30: one canvas and one handler at most, none after remove(); an update
\* that was pending when remove() ran draws nothing while no canvas has been
\* created since, and after a later draw() it draws on the canvas of that
\* draw(), never on the canvas that was removed.
C30_Lifecycle ==
    /\ OneCanvasOneHandler
    /\ (border.last.kind = "update" /\ border.last.late)
            => /\ border.last.drew = border.canvas
               /\ border.last.drew # None => border.last.drew > border.last.handler
               /\ border.attached \subseteq {border.last.drew}

\* redraw() with an update pending, then its frame: the update of the removed
\* handler has drawn on the new canvas
C30_Witness ==
    /\ border.last.kind = "update"
    /\ border.last.late
    /\ border.last.handler = 1
    /\ border.last.drew = 2
    /\ border.attached = {2}
    /\ border.listeners = {2}

====
